---- MODULE Spec2Model ----
(***************************************************************************)
(* Multi-provider LLM invocation layer of MCP-Universe.                    *)
(*                                                                         *)
(* The module models one adapter instance (LiteLLM, Gemini, Claude         *)
(* gateway or vLLM) and the sequential caller that drives it: the retry /  *)
(* backoff loop of every adapter, the fallback chain and the cost tracker  *)
(* of LiteLLMModel.  Provider replies are the environment: each provider   *)
(* call draws its outcome nondeterministically.                            *)
(*                                                                         *)
(* Spec              one instance and its sequential caller                *)
(* RequestSpec       credentials and call options, with set_context        *)
(* ConcSpec          threads that call one LiteLLMModel instance           *)
(* ConversationSpec  conversations with tool calls and tool results        *)
(* TranslateSpec     the translation of tool calls of the Claude gateway   *)
(* SchemaSpec        parameter schemas of the tools sent to Gemini         *)
(* LiveSpec          LiteLLMModel._generate under fair scheduling          *)
(* TaskSpec          AgentTask._run_task: one task run by one agent        *)
(***************************************************************************)
EXTENDS Integers, Sequences, FiniteSets, TLC

(***************************************************************************)
(* Bounds of the model.                                                    *)
(***************************************************************************)
\* longest fallback_models list that is configured
MaxFallbacks == 1
\* largest max_retries a caller passes explicitly
MaxRetries == 2
\* cap of the sum of the costs the provider reports
MaxTotalCost == 3
\* number of callers that use one instance concurrently
NumThreads == 2
\* largest number of agents in one agent collection
MaxAgents == 2

(***************************************************************************)
(* Program constants.                                                      *)
(***************************************************************************)
\* litellm.py:277  kwargs.pop("max_retries", 3)
LiteLLMDefaultMaxRetries == 3
\* litellm.py:278  kwargs.pop("base_delay", 2.0)
LiteLLMDefaultBaseDelay == 2

\* gemini.py:94  kwargs.get("max_retries", 0)
GeminiDefaultMaxRetries == 0
\* gemini.py:95  kwargs.get("base_delay", 10.0)
GeminiDefaultBaseDelay == 10
\* claude_gateway.py:116
ClaudeDefaultMaxRetries == 0
\* claude_gateway.py:117
ClaudeDefaultBaseDelay == 10
\* vllm_gptoss.py:96
VllmDefaultMaxRetries == 0
\* vllm_gptoss.py:97
VllmDefaultBaseDelay == 10

\* litellm.py:70  LiteLLMConfig.timeout
LiteLLMConfigTimeout == 60
\* gemini.py:112  kwargs.get("timeout", 30)
GeminiDefaultTimeout == 30
\* claude_gateway.py:142  kwargs.get("timeout", 30)
ClaudeDefaultTimeout == 30
\* vllm_gptoss.py:120  kwargs.get("timeout", 60)
VllmDefaultTimeout == 60

\* a keyword argument the caller did not pass
NoArg == -1

\* the names of the configured models: the primary, then the i-th fallback
PrimaryName == "A"
FallbackName(i) == CASE i = 1 -> "B" [] i = 2 -> "C" [] OTHER -> "D"

\* exceptions a provider call raises (the taxonomy of the design)
Errors == {"Timeout", "RateLimited", "Unauthorized"}

\* message.content of a reply: null, free text, or JSON text matching the schema
Contents == {"null", "text", "json"}

\* what completion_cost does with a reply: a number, None, or an exception
CostReports ==
    {[kind |-> "value", v |-> 1], [kind |-> "value", v |-> 2],
     [kind |-> "none", v |-> 0], [kind |-> "raise", v |-> 0]}

\* outcomes of one litellm.completion call
CompletionOutcomes ==
    {[exc |-> e, content |-> "null", report |-> [kind |-> "none", v |-> 0]] : e \in Errors}
    \cup {[exc |-> "", content |-> c, report |-> r] : c \in Contents, r \in CostReports}

(***************************************************************************)
(* Values handed back to the caller.                                       *)
(***************************************************************************)
None == [kind |-> "None", idx |-> 0, att |-> 0, form |-> "null"]

\* the text of the reply of call number att to candidate idx
Str(idx, att, form) == [kind |-> "str", idx |-> idx, att |-> att, form |-> form]

\* response_format.model_validate(json.loads(content))
Parsed(idx, att) == [kind |-> "parsed", idx |-> idx, att |-> att, form |-> "json"]

\* the raw provider response object
Response(idx, att, form) == [kind |-> "response", idx |-> idx, att |-> att, form |-> form]

(***************************************************************************)
(* LiteLLMModel: pure parts.                                               *)
(***************************************************************************)
\* the fallbacks are put before the primary model
MutModelsToTry(cfg) == cfg.fallback_models \o <<cfg.model_name>>

\* litellm.py:281  [self.config.model_name] + self.config.fallback_models
ModelsToTry(cfg) == <<cfg.model_name>> \o cfg.fallback_models

\* a reply whose cost cannot be computed is charged one unit
MutCalculateCost(report) == IF report.kind = "value" THEN report.v ELSE 1

\* litellm.py:133-148
CalculateCost(report) == IF report.kind = "value" THEN report.v ELSE 0

\* _try_model without its except clause: the exception of completion() propagates
MutTryModelRaises(o, idx, att, has_format, has_tools, track_cost) ==
    IF o.exc # ""
    THEN [result |-> None, cost |-> 0, add |-> 0, exc |-> o.exc]
    ELSE LET cost == IF track_cost THEN CalculateCost(o.report) ELSE 0
             result ==
                 IF has_tools THEN Response(idx, att, o.content)
                 ELSE IF has_format
                      THEN IF o.content = "json" THEN Parsed(idx, att) ELSE None
                      ELSE IF o.content = "null" THEN None
                           ELSE Str(idx, att, o.content)
         IN [result |-> result, cost |-> cost, add |-> cost, exc |-> ""]

\* the except clause returns the text of the error instead of None
MutTryModelErrorText(o, idx, att, has_format, has_tools, track_cost) ==
    IF o.exc # ""
    THEN [result |-> Str(idx, att, "text"), cost |-> 0, add |-> 0, exc |-> ""]
    ELSE LET cost == IF track_cost THEN CalculateCost(o.report) ELSE 0
             result ==
                 IF has_tools THEN Response(idx, att, o.content)
                 ELSE IF has_format
                      THEN IF o.content = "json" THEN Parsed(idx, att) ELSE None
                      ELSE IF o.content = "null" THEN None
                           ELSE Str(idx, att, o.content)
         IN [result |-> result, cost |-> cost, add |-> cost, exc |-> ""]

\* the inner except clause is missing: the parse error reaches the caller
MutTryModelParseRaises(o, idx, att, has_format, has_tools, track_cost) ==
    IF o.exc # ""
    THEN [result |-> None, cost |-> 0, add |-> 0, exc |-> ""]
    ELSE LET cost == IF track_cost THEN CalculateCost(o.report) ELSE 0
             result ==
                 IF has_tools THEN Response(idx, att, o.content)
                 ELSE IF has_format
                      THEN IF o.content = "json" THEN Parsed(idx, att) ELSE None
                      ELSE IF o.content = "null" THEN None
                           ELSE Str(idx, att, o.content)
         IN [result |-> result, cost |-> cost, add |-> cost,
             exc |-> IF ~has_tools /\ has_format /\ o.content # "json"
                     THEN "ValidationError" ELSE ""]

\* a reply that does not parse is returned as its raw text
MutTryModelRawText(o, idx, att, has_format, has_tools, track_cost) ==
    IF o.exc # ""
    THEN [result |-> None, cost |-> 0, add |-> 0, exc |-> ""]
    ELSE LET cost == IF track_cost THEN CalculateCost(o.report) ELSE 0
             result ==
                 IF has_tools THEN Response(idx, att, o.content)
                 ELSE IF has_format
                      THEN IF o.content = "json" THEN Parsed(idx, att)
                           ELSE IF o.content = "text" THEN Str(idx, att, o.content)
                           ELSE None
                      ELSE IF o.content = "null" THEN None
                           ELSE Str(idx, att, o.content)
         IN [result |-> result, cost |-> cost, add |-> cost, exc |-> ""]

\* with a response schema the reply is parsed also when tools are passed
MutTryModelParseWithTools(o, idx, att, has_format, has_tools, track_cost) ==
    IF o.exc # ""
    THEN [result |-> None, cost |-> 0, add |-> 0, exc |-> ""]
    ELSE LET cost == IF track_cost THEN CalculateCost(o.report) ELSE 0
             result ==
                 IF has_format
                 THEN IF o.content = "json" THEN Parsed(idx, att) ELSE None
                 ELSE IF has_tools THEN Response(idx, att, o.content)
                      ELSE IF o.content = "null" THEN None
                           ELSE Str(idx, att, o.content)
         IN [result |-> result, cost |-> cost, add |-> cost, exc |-> ""]

\* the cost of a call that yields no result is not added to the total
MutTryModelFreeFailure(o, idx, att, has_format, has_tools, track_cost) ==
    IF o.exc # ""
    THEN [result |-> None, cost |-> 0, add |-> 0, exc |-> ""]
    ELSE LET cost == IF track_cost THEN CalculateCost(o.report) ELSE 0
             result ==
                 IF has_tools THEN Response(idx, att, o.content)
                 ELSE IF has_format
                      THEN IF o.content = "json" THEN Parsed(idx, att) ELSE None
                      ELSE IF o.content = "null" THEN None
                           ELSE Str(idx, att, o.content)
         IN [result |-> result, cost |-> cost,
             add |-> IF result = None THEN 0 ELSE cost, exc |-> ""]

\* litellm.py:210-245: what _try_model makes of the outcome o of completion().
\* result/cost are the returned pair, add is the amount added to total_cost,
\* exc is the exception that leaves _try_model ("" when none does).
TryModel(o, idx, att, has_format, has_tools, track_cost) ==
    IF o.exc # ""
    THEN [result |-> None, cost |-> 0, add |-> 0, exc |-> ""]
    ELSE LET cost == IF track_cost THEN CalculateCost(o.report) ELSE 0
             result ==
                 IF has_tools THEN Response(idx, att, o.content)
                 ELSE IF has_format
                      THEN IF o.content = "json" THEN Parsed(idx, att) ELSE None
                      ELSE IF o.content = "null" THEN None
                           ELSE Str(idx, att, o.content)
         IN [result |-> result, cost |-> cost, add |-> cost, exc |-> ""]

\* the cost is assigned instead of added
MutAccumulateCost(total, cost) == cost

\* litellm.py:217  self.total_cost += cost
AccumulateCost(total, cost) == total + cost

\* the delay grows linearly from 0
MutLiteLLMDelay(base, att) == base * 2 * att

\* litellm.py:301
LiteLLMDelay(base, att) == base * (2 ^ att)

\* a missing argument counts as 0
MutArgOrZero(arg, default) == IF arg = NoArg THEN 0 ELSE arg

\* kwargs.pop(name, default) / kwargs.get(name, default)
ArgOr(arg, default) == IF arg = NoArg THEN default ELSE arg

\* a success only leaves the retry loop (break), the next candidate is still tried
MutAfterTryBreak(result, idx, att, retries, n) ==
    IF result # None /\ idx = n THEN [pc |-> "done", idx |-> idx, att |-> att]
    ELSE IF result = None /\ att < retries THEN [pc |-> "sleep", idx |-> idx, att |-> att]
    ELSE IF idx < n THEN [pc |-> "try", idx |-> idx + 1, att |-> 0]
    ELSE [pc |-> "done", idx |-> idx, att |-> att]

\* the retry loop runs max_retries times instead of max_retries + 1
MutAfterTryOffByOne(result, idx, att, retries, n) ==
    IF result # None THEN [pc |-> "done", idx |-> idx, att |-> att]
    ELSE IF att + 1 < retries THEN [pc |-> "sleep", idx |-> idx, att |-> att]
    ELSE IF idx < n THEN [pc |-> "try", idx |-> idx + 1, att |-> 0]
    ELSE [pc |-> "done", idx |-> idx, att |-> att]

\* the result is looked at only when the retries of the candidate are used up
MutAfterTryLateReturn(result, idx, att, retries, n) ==
    IF att < retries THEN [pc |-> "sleep", idx |-> idx, att |-> att]
    ELSE IF result # None THEN [pc |-> "done", idx |-> idx, att |-> att]
    ELSE IF idx < n THEN [pc |-> "try", idx |-> idx + 1, att |-> 0]
    ELSE [pc |-> "done", idx |-> idx, att |-> att]

\* the attempt counter is carried over to the next candidate
MutAfterTryKeepAttempt(result, idx, att, retries, n) ==
    IF result # None THEN [pc |-> "done", idx |-> idx, att |-> att]
    ELSE IF att < retries THEN [pc |-> "sleep", idx |-> idx, att |-> att]
    ELSE IF idx < n THEN [pc |-> "try", idx |-> idx + 1, att |-> att]
    ELSE [pc |-> "done", idx |-> idx, att |-> att]

\* every candidate gets one attempt more, after one sleep more
MutAfterTryExtraAttempt(result, idx, att, retries, n) ==
    IF result # None THEN [pc |-> "done", idx |-> idx, att |-> att]
    ELSE IF att <= retries THEN [pc |-> "sleep", idx |-> idx, att |-> att]
    ELSE IF idx < n THEN [pc |-> "try", idx |-> idx + 1, att |-> 0]
    ELSE [pc |-> "done", idx |-> idx, att |-> att]

\* litellm.py:284-319: where the two loops of _generate go after a _try_model
\* call of candidate idx (1-based), attempt att, out of n candidates.
AfterTry(result, idx, att, retries, n) ==
    IF result # None THEN [pc |-> "done", idx |-> idx, att |-> att]
    ELSE IF att < retries THEN [pc |-> "sleep", idx |-> idx, att |-> att]
    ELSE IF idx < n THEN [pc |-> "try", idx |-> idx + 1, att |-> 0]
    ELSE [pc |-> "done", idx |-> idx, att |-> att]

\* litellm.py:190-199: the schema instruction lands in the leading system message
AddSchemaInstruction(msgs) ==
    IF Len(msgs) > 0 /\ msgs[1].role = "system"
    THEN [msgs EXCEPT ![1].instr = @ + 1]
    ELSE <<[role |-> "system", id |-> 0, instr |-> 1]>> \o msgs

(***************************************************************************)
(* GeminiModel, ClaudeGatewayModel, VLLMLocalModel: pure parts.            *)
(***************************************************************************)
\* an error message is a sequence of words
LowerWord(w) ==
    CASE w = "Rate" -> "rate" [] w = "Limit" -> "limit" [] w = "Timeout" -> "timeout"
      [] w = "Service" -> "service" [] w = "Unavailable" -> "unavailable"
      [] w = "API" -> "api" [] w = "Key" -> "key" [] OTHER -> w

\* str(e).lower()
Lower(msg) == [i \in DOMAIN msg |-> LowerWord(msg[i])]

\* keyword in error_str
ContainsWords(msg, kw) ==
    \E i \in 1..(Len(msg) - Len(kw) + 1) : SubSeq(msg, i, i + Len(kw) - 1) = kw

\* gemini.py:156-159
GeminiKeywords ==
    {<<"rate", "limit">>, <<"quota">>, <<"timeout">>, <<"connection">>, <<"network">>,
     <<"service", "unavailable">>, <<"internal", "error">>,
     <<"429">>, <<"500">>, <<"502">>, <<"503">>, <<"504">>}

\* the keywords are looked up in the message as it is, not in its lower case
MutGeminiIsRetryable(msg) == \E kw \in GeminiKeywords : ContainsWords(msg, kw)

\* gemini.py:153-159
GeminiIsRetryable(msg) == \E kw \in GeminiKeywords : ContainsWords(Lower(msg), kw)

\* exceptions of the google-genai client: their class in the design's taxonomy and
\* their message
GeminiExceptions ==
    {[exc |-> "RateLimited", msg |-> <<"429", "Rate", "Limit", "exceeded">>],
     [exc |-> "Timeout", msg |-> <<"Request", "Timeout">>],
     [exc |-> "Unauthorized", msg |-> <<"API", "Key", "not", "valid">>]}

GeminiOutcomes ==
    {[exc |-> e.exc, msg |-> e.msg, content |-> "null"] : e \in GeminiExceptions}
    \cup {[exc |-> "", msg |-> <<>>, content |-> c] : c \in Contents}

\* gemini.py:144-151
GeminiResult(o, att, has_format, has_tools) ==
    IF has_tools THEN Response(1, att, o.content)
    ELSE IF has_format
         THEN IF o.content = "json" THEN Parsed(1, att) ELSE None
         ELSE IF o.content = "null" THEN None ELSE Str(1, att, o.content)

\* gemini.py:170
GeminiDelay(base, att) == base * (2 ^ att)

\* claude_gateway.py:186-187: requests.exceptions.RequestException and its subclasses
\* (Timeout, ConnectionError, HTTPError raised by raise_for_status)
ClaudeRequestExceptions == {"Timeout", "Unauthorized", "ServerError"}

\* what requests.post / raise_for_status / json.loads raise in the gateway adapter
ClaudeExceptions == ClaudeRequestExceptions \cup {"ProtocolError"}

ClaudeOutcomes ==
    {[exc |-> e, content |-> "null"] : e \in ClaudeExceptions}
    \cup {[exc |-> "", content |-> "text"]}

\* claude_gateway.py:194
ClaudeDelay(base, att) == base * (2 ^ att)

\* vllm_gptoss.py:126: the openai exception classes the retry branch catches
VllmRetryExceptions == {"openai.RateLimitError", "openai.APIError", "openai.APITimeoutError"}

\* what requests.post / raise_for_status / response.json() raise in the vLLM adapter
VllmExceptions == {"Timeout", "Unauthorized", "ProtocolError"}

VllmOutcomes ==
    {[exc |-> e, content |-> "null"] : e \in VllmExceptions}
    \cup {[exc |-> "", content |-> "text"]}

\* vllm_gptoss.py:133
VllmDelay(base, att) == base * (2 ^ att)

(***************************************************************************)
(* Tool definitions and their translation.  A dict is a function on its    *)
(* keys.                                                                   *)
(***************************************************************************)
EmptyDict == [k \in {} |-> ""]

\* del d[key]
DropKey(d, key) == [k \in DOMAIN d \ {key} |-> d[k]]

\* d.get(key, default)
Get(d, key, default) == IF key \in DOMAIN d THEN d[key] ELSE default

\* JSON schemas of tool parameters
ObjectSchema ==
    [type |-> "object",
     properties |-> [x |-> [type |-> "string", description |-> "dx"]],
     required |-> <<"x">>]

ArraySchema ==
    [title |-> "Args",
     properties |-> [n |-> [type |-> "array", items |-> [type |-> "number"]]]]

\* tool definitions in OpenAI format: function tools with and without a title,
\* a description and parameters, and an entry that is not a function tool
ToolF == [type |-> "function",
          function |-> [name |-> "f", description |-> "df", parameters |-> ObjectSchema]]

ToolG == [type |-> "function", function |-> [name |-> "g", title |-> "G"]]

ToolH == [type |-> "function",
          function |-> [name |-> "h", title |-> "H", description |-> "dh",
                        parameters |-> ArraySchema]]

ToolK == [type |-> "function", function |-> [name |-> "k", parameters |-> EmptyDict]]

ToolR == [type |-> "retrieval"]

\* the tool lists a caller passes to the translating adapters
ToolLists == {<<ToolF>>, <<ToolG>>, <<ToolR>>, <<ToolK, ToolH>>, <<ToolR, ToolF>>}

\* kwargs['tools'] of a generate call: nothing when tools are not passed; the
\* adapters that pass the list on untouched, or ignore it, get one list
ToolArgs(ad, has_tools) ==
    IF ~has_tools THEN {<<>>}
    ELSE IF ad \in {"claude_gateway", "gemini"} THEN ToolLists
    ELSE {<<ToolG>>}

\* claude_gateway.py:327, gemini.py:196
IsFunctionTool(tool) ==
    /\ "type" \in DOMAIN tool
    /\ tool.type = "function"
    /\ "function" \in DOMAIN tool

\* claude_gateway.py:325-337: the list returned (claude_tools) and what the loop
\* leaves in the caller's list (openai_tools): func_def is the caller's dict, so
\* del func_def["title"] removes the key there
ConvertOpenaiToolsToClaude(ts) ==
    LET fs == SelectSeq(ts, IsFunctionTool)
        ClaudeTool(fd) ==
            [name |-> fd.name,
             description |-> Get(fd, "description", ""),
             input_schema |-> Get(fd, "parameters", EmptyDict)]
    IN [claude_tools |-> [i \in 1..Len(fs) |-> ClaudeTool(DropKey(fs[i].function, "title"))],
        openai_tools |->
            [i \in 1..Len(ts) |->
                IF IsFunctionTool(ts[i])
                THEN [ts[i] EXCEPT !.function = DropKey(@, "title")]
                ELSE ts[i]]]

\* the schemas of the properties and of the items are copied as they are
MutConvertOpenaiSchemaToGemini(sc) ==
    IF DOMAIN sc = {} THEN [type |-> "object"]
    ELSE LET keys == {"type"} \cup (DOMAIN sc \cap {"properties", "required",
                                                    "description", "items"})
         IN [k \in keys |->
                CASE k = "type" -> Get(sc, "type", "object")
                  [] OTHER -> sc[k]]

RECURSIVE ConvertOpenaiSchemaToGemini(_)
\* gemini.py:215-241: a new Schema is built from the keys type, properties,
\* required, description and items
ConvertOpenaiSchemaToGemini(sc) ==
    IF DOMAIN sc = {} THEN [type |-> "object"]
    ELSE LET keys == {"type"} \cup (DOMAIN sc \cap {"properties", "required",
                                                    "description", "items"})
         IN [k \in keys |->
                CASE k = "type" -> Get(sc, "type", "object")
                  [] k = "properties" ->
                        [p \in DOMAIN sc.properties |->
                            ConvertOpenaiSchemaToGemini(sc.properties[p])]
                  [] k = "items" -> ConvertOpenaiSchemaToGemini(sc.items)
                  [] OTHER -> sc[k]]

\* gemini.py:192-213: one Tool holding a FunctionDeclaration per function tool, or
\* no Tool at all; the caller's list is only read
ConvertOpenaiToolsToGemini(ts) ==
    LET fs == SelectSeq(ts, IsFunctionTool)
        FunctionDeclaration(fd) ==
            [name |-> fd.name,
             description |-> Get(fd, "description", ""),
             parameters |-> ConvertOpenaiSchemaToGemini(Get(fd, "parameters", EmptyDict))]
    IN IF Len(fs) = 0 THEN <<>>
       ELSE <<[function_declarations |->
                  [i \in 1..Len(fs) |-> FunctionDeclaration(fs[i].function)]]>>

(***************************************************************************)
(* Credentials and the parameters of a provider request.                   *)
(***************************************************************************)
\* the api_key of the configuration a model instance is constructed with
ConfiguredKey == "k0"

\* the name of the API key of each adapter in the environment mapping (env_vars)
KeyName(ad) ==
    CASE ad = "litellm" -> "LITELLM_API_KEY"
      [] ad = "gemini" -> "GEMINI_API_KEY"
      [] ad = "claude_gateway" -> "SALESFORCE_GATEWAY_KEY"
      [] ad = "vllm" -> "VLLM_API_KEY"

\* Context.get_env(name, default): the value of name in the environment mapping of
\* the context, default when the mapping has no such name
ContextGetEnv(env, name, default) == Get(env, name, default)

\* the key is taken from the context only when the instance has none
MutNewApiKey(ad, env, key) == IF key = "" THEN Get(env, KeyName(ad), key) ELSE key

\* litellm.py:330, gemini.py:324, claude_gateway.py:420, vllm_gptoss.py:148: the
\* api_key of the instance after set_context with the environment mapping env
NewApiKey(ad, env, key) ==
    IF ad = "litellm" THEN ContextGetEnv(env, KeyName(ad), key)
    ELSE Get(env, KeyName(ad), key)

\* the tool_choice and the timeout of the caller are not passed on
MutLiteLLMParams(key, opts) ==
    LET keys == {"timeout"} \cup (IF key # "" THEN {"api_key"} ELSE {})
        Value(k) == CASE k = "timeout" -> LiteLLMConfigTimeout
                      [] OTHER -> key
    IN [k \in keys |-> Value(k)]

\* litellm.py:171-208: litellm_params without model, messages, the sampling
\* parameters and tools: the timeout, the api_key when one is set, and tool_choice
\* when the caller passed one
LiteLLMParams(key, opts) ==
    LET keys == {"timeout"} \cup (IF key # "" THEN {"api_key"} ELSE {})
                \cup (DOMAIN opts \cap {"tool_choice"})
        Value(k) == CASE k = "timeout" -> Get(opts, "timeout", LiteLLMConfigTimeout)
                      [] k = "api_key" -> key
                      [] OTHER -> opts[k]
    IN [k \in keys |-> Value(k)]

\* gemini.py:99, 111-113: the key of the client and the timeout of the request in
\* milliseconds
GeminiParams(key, opts) ==
    [api_key |-> key, timeout |-> Get(opts, "timeout", GeminiDefaultTimeout) * 1000]

\* claude_gateway.py:123-126, 142, 158-170: the X-Api-Key header, the timeout, and
\* the keyword arguments that are copied into the request body
ClaudeParams(key, opts) ==
    LET keys == {"api_key", "timeout"} \cup (DOMAIN opts \cap {"tool_choice"})
        Value(k) == CASE k = "timeout" -> Get(opts, "timeout", ClaudeDefaultTimeout)
                      [] k = "api_key" -> key
                      [] OTHER -> opts[k]
    IN [k \in keys |-> Value(k)]

\* vllm_gptoss.py:116-120: the Authorization header and the timeout
VllmParams(key, opts) ==
    [api_key |-> key, timeout |-> Get(opts, "timeout", VllmDefaultTimeout)]

(***************************************************************************)
(* State.                                                                  *)
(***************************************************************************)
VARIABLES
    adapter,         \* the class of the instance
    config,          \* self.config: model_name, fallback_models, track_cost
    total_cost,      \* self.total_cost
    pc,              \* position of the caller / of _generate
    messages,        \* the caller's message list (passed by reference)
    response_format, \* TRUE when a response schema is passed
    tools,           \* TRUE when kwargs carries tools
    kwargs,          \* max_retries and base_delay as the caller passed them
    max_retries,     \* local of _generate
    base_delay,      \* local of _generate
    model_idx,       \* 1-based position in models_to_try
    attempt,         \* loop variable of the retry loop
    result,          \* value returned by the last _generate
    raised,          \* exception that left the last _generate ("" when none)
    log,             \* provider calls and sleeps of the running invocation, in order
    hist,            \* per candidate: what its calls did in the running invocation
    cost_sum,        \* sum of the costs reported, while cost tracking is enabled,
                     \* since construction / reset_cost
    last_op,         \* the public method of the instance that was called last
    openai_tools,    \* the caller's tool definitions, kwargs['tools'] (passed by reference)
    request_tools,   \* the tools put into the latest provider request
    before,          \* the caller's messages and tool definitions, and the api_key
                     \* of the instance, as they were when generate was called
    request,         \* the parameters of the latest provider request (a dict)
    api_key,         \* self.config.api_key
    options,         \* the other keyword arguments of generate: tool_choice, timeout
    threads,         \* concurrent callers of one instance: position and locals of each
    blocks,          \* content blocks in the form of the gateway (tool_use, text)
    message,         \* an assistant message in OpenAI form (content, tool_calls)
    round_trip,      \* where a translated value started and which form it has now
    task             \* one run of AgentTask._run_task: its input, position and locals

vars == <<adapter, config, total_cost, pc, messages, response_format, tools, kwargs,
          max_retries,
          base_delay, model_idx, attempt, result, raised, log, hist, cost_sum,
          last_op, openai_tools, request_tools, before, request, api_key, options,
          threads,
          blocks, message, round_trip, task>>

\* state of the translation of tool calls
translate_vars == <<blocks, message, round_trip>>

\* state of the concurrent callers and of the translation of tool calls, which the
\* sequential caller leaves alone
side_vars == <<threads, blocks, message, round_trip, task>>

NoMessage == [role |-> "assistant", content |-> <<>>, tool_calls |-> <<>>]

NoTrip == [origin |-> "", side |-> "", start |-> <<>>, returned |-> FALSE]

\* no task is run
NoTask == [pc |-> "idle", known |-> FALSE, size |-> 0, index |-> 0, specified |-> FALSE,
           calls |-> <<>>, result |-> "", tracer |-> FALSE, returned |-> "",
           raised |-> ""]

Adapters == {"litellm", "gemini", "claude_gateway", "vllm"}

\* fallback lists that are configured
FallbackLists == {[i \in 1..k |-> FallbackName(i)] : k \in 0..MaxFallbacks}

NoHist == [last |-> "", all_retryable |-> TRUE]

\* message lists a caller passes: with and, when a schema is passed, also without a
\* leading system message
MessageLists(fmt) ==
    {<<[role |-> "system", id |-> 1, instr |-> 0], [role |-> "user", id |-> 2, instr |-> 0]>>}
    \cup (IF fmt THEN {<<[role |-> "user", id |-> 1, instr |-> 0]>>} ELSE {})

RetryArgs == {NoArg} \cup 0..MaxRetries
DelayArgs == {NoArg, 3}

\* litellm.py:112-131, gemini.py:64-66, claude_gateway.py:81-90, vllm_gptoss.py:66-68
Init ==
    /\ adapter \in Adapters
    /\ config \in [model_name : {PrimaryName},
                   fallback_models : IF adapter = "litellm" THEN FallbackLists ELSE {<<>>},
                   track_cost : IF adapter = "litellm" THEN BOOLEAN ELSE {FALSE}]
    /\ total_cost = 0
    /\ pc = "idle"
    /\ messages = <<>>
    /\ response_format = FALSE
    /\ tools = FALSE
    /\ kwargs = [max_retries |-> NoArg, base_delay |-> NoArg]
    /\ max_retries = 0
    /\ base_delay = 0
    /\ model_idx = 0
    /\ attempt = 0
    /\ result = None
    /\ raised = ""
    /\ log = <<>>
    /\ hist = <<>>
    /\ cost_sum = 0
    /\ last_op = "init"
    /\ openai_tools = <<>>
    /\ request_tools = <<>>
    /\ before = [messages |-> <<>>, tools |-> <<>>, api_key |-> ""]
    /\ request = EmptyDict
    /\ api_key = ConfiguredKey
    /\ options = EmptyDict
    /\ threads = <<>>
    /\ blocks = <<>>
    /\ message = NoMessage
    /\ round_trip = NoTrip
    /\ task = NoTask

\* how one call ended, as the caller of completion() sees it
OutcomeKind(o, res) ==
    IF o.exc # "" THEN o.exc
    ELSE IF res # None THEN "ok"
    ELSE IF o.content = "null" THEN "null_content" ELSE "parse_fail"

\* the classes of section 4.3 of the design
RetryableErrors == {"Timeout", "RateLimited", "ServerError"}
FatalErrors == {"Unauthorized", "ProtocolError"}

\* last: how the latest call to the candidate ended; all_retryable: every failed
\* call to it raised a retryable error
Record(h, kind) ==
    [last |-> kind,
     all_retryable |-> h.all_retryable /\ kind \in RetryableErrors \cup {"ok"}]

CallEvent(idx, att) ==
    [ev |-> "call", idx |-> idx, model |-> ModelsToTry(config)[idx], att |-> att, delay |-> 0]

SleepEvent(idx, att, delay) ==
    [ev |-> "sleep", idx |-> idx, model |-> ModelsToTry(config)[idx], att |-> att,
     delay |-> delay]

\* the arguments of the generate calls of the sequential caller
AllInputs ==
    [formats |-> BOOLEAN, tool_flags |-> BOOLEAN, retries |-> RetryArgs,
     delays |-> DelayArgs, options |-> {EmptyDict}]

\* entry of _generate with arguments drawn from inputs: the arguments are bound and
\* the loops start
EnterWith(default_retries, default_delay, inputs) ==
    /\ pc \in {"idle", "done"}
    /\ \E fmt \in inputs.formats, tl \in inputs.tool_flags, r \in inputs.retries,
          d \in inputs.delays, opts \in inputs.options :
       \E msgs \in MessageLists(fmt), tds \in ToolArgs(adapter, tl) :
          /\ messages' = msgs
          /\ response_format' = fmt
          /\ tools' = tl
          /\ openai_tools' = tds
          /\ options' = opts
          /\ before' = [messages |-> msgs, tools |-> tds, api_key |-> api_key]
          /\ kwargs' = [max_retries |-> r, base_delay |-> d]
          /\ max_retries' = ArgOr(r, default_retries)
          /\ base_delay' = ArgOr(d, default_delay)
    /\ model_idx' = 1
    /\ attempt' = 0
    /\ pc' = "try"
    /\ result' = None
    /\ raised' = ""
    /\ log' = <<>>
    /\ hist' = [i \in 1..Len(ModelsToTry(config)) |-> NoHist]
    /\ last_op' = "generate"
    /\ request_tools' = <<>>
    /\ request' = EmptyDict
    /\ UNCHANGED <<adapter, config, total_cost, cost_sum, api_key>>
    /\ UNCHANGED side_vars

\* entry of _generate
Enter(default_retries, default_delay) == EnterWith(default_retries, default_delay, AllInputs)

\* litellm.py:247-283
Generate ==
    /\ adapter = "litellm"
    /\ Enter(LiteLLMDefaultMaxRetries, LiteLLMDefaultBaseDelay)

\* gemini.py:68-97
GeminiGenerate ==
    /\ adapter = "gemini"
    /\ Enter(GeminiDefaultMaxRetries, GeminiDefaultBaseDelay)

\* claude_gateway.py:92-121
ClaudeGenerate ==
    /\ adapter = "claude_gateway"
    /\ Enter(ClaudeDefaultMaxRetries, ClaudeDefaultBaseDelay)

\* vllm_gptoss.py:70-100
VllmGenerate ==
    /\ adapter = "vllm"
    /\ Enter(VllmDefaultMaxRetries, VllmDefaultBaseDelay)

\* litellm.py:150-245 with 291-312: the _try_model call whose completion() ends with
\* outcome o, and the loop step after it
TryModelCall(o) ==
    /\ LET r == TryModel(o, model_idx, attempt, response_format, tools, config.track_cost)
           nxt == AfterTry(r.result, model_idx, attempt, max_retries,
                           Len(ModelsToTry(config)))
           reported == IF config.track_cost /\ o.exc = "" /\ o.report.kind = "value"
                       THEN o.report.v ELSE 0
       IN /\ cost_sum + reported <= MaxTotalCost
          /\ messages' = IF response_format THEN AddSchemaInstruction(messages) ELSE messages
          /\ total_cost' = AccumulateCost(total_cost, r.add)
          /\ cost_sum' = cost_sum + reported
          /\ log' = Append(log, CallEvent(model_idx, attempt))
          /\ hist' = [hist EXCEPT ![model_idx] = Record(@, OutcomeKind(o, r.result))]
          /\ IF r.exc # ""
             THEN /\ pc' = "done"
                  /\ raised' = r.exc
                  /\ UNCHANGED <<result, model_idx, attempt>>
             ELSE /\ pc' = nxt.pc
                  /\ model_idx' = nxt.idx
                  /\ attempt' = nxt.att
                  /\ result' = IF nxt.pc = "done" THEN r.result ELSE result
                  /\ UNCHANGED raised
    /\ request_tools' = IF tools THEN openai_tools ELSE <<>>
    /\ request' = LiteLLMParams(api_key, options)
    /\ UNCHANGED <<adapter, config, response_format, tools, kwargs, max_retries, base_delay,
                   last_op, openai_tools, before, api_key, options>>
    /\ UNCHANGED side_vars

\* litellm.py:291-297: the next iteration of the loops of _generate
TryModelStep ==
    /\ adapter = "litellm"
    /\ pc = "try"
    /\ \E o \in CompletionOutcomes : TryModelCall(o)

\* the end of one attempt of a single-model adapter: the attempt returned res
\* (failed = FALSE), or raised an exception that is retried or not
EndAttempt(kind, failed, retry, res) ==
    /\ log' = Append(log, CallEvent(1, attempt))
    /\ hist' = [hist EXCEPT ![1] = Record(@, kind)]
    /\ IF failed /\ retry /\ attempt # max_retries
       THEN /\ pc' = "sleep"
            /\ UNCHANGED result
       ELSE /\ pc' = "done"
            /\ result' = IF failed THEN None ELSE res
    /\ UNCHANGED <<adapter, config, total_cost, messages, response_format, tools, kwargs,
                   max_retries, base_delay, model_idx, attempt, raised, cost_sum,
                   last_op, before, api_key, options>>
    /\ UNCHANGED side_vars

\* gemini.py:97-173: one iteration of the retry loop up to its return or its sleep
GeminiAttemptWith(o) ==
    /\ adapter = "gemini"
    /\ pc = "try"
    /\ LET res == GeminiResult(o, attempt, response_format, tools)
       IN EndAttempt(OutcomeKind(o, res), o.exc # "", GeminiIsRetryable(o.msg), res)
    /\ request_tools' = IF tools THEN ConvertOpenaiToolsToGemini(openai_tools) ELSE <<>>
    /\ request' = GeminiParams(api_key, options)
    /\ UNCHANGED openai_tools

GeminiAttempt == \E o \in GeminiOutcomes : GeminiAttemptWith(o)

\* the request is sent also when a response schema is passed
MutClaudeAttempt ==
    /\ adapter = "claude_gateway"
    /\ pc = "try"
    /\ \E o \in ClaudeOutcomes :
          LET res == IF tools THEN Response(1, attempt, o.content)
                     ELSE Str(1, attempt, o.content)
          IN EndAttempt(OutcomeKind(o, res), o.exc # "",
                        o.exc \in ClaudeRequestExceptions, res)
    /\ LET conv == ConvertOpenaiToolsToClaude(openai_tools)
       IN /\ request_tools' = IF tools THEN conv.claude_tools ELSE <<>>
          /\ openai_tools' = IF tools THEN conv.openai_tools ELSE openai_tools
    /\ request' = ClaudeParams(api_key, options)

\* claude_gateway.py:121-202: one iteration of the retry loop; with a response
\* schema NotImplementedError is raised before any request is sent
ClaudeAttempt ==
    /\ adapter = "claude_gateway"
    /\ pc = "try"
    /\ IF response_format
       THEN /\ pc' = "done"
            /\ result' = None
            /\ UNCHANGED <<adapter, config, total_cost, messages, response_format, tools, kwargs,
                           max_retries, base_delay, model_idx, attempt, raised, log,
                           hist, cost_sum, last_op, openai_tools,
                           request_tools, before, request, api_key, options>>
            /\ UNCHANGED side_vars
       ELSE /\ \E o \in ClaudeOutcomes :
                  LET res == IF tools THEN Response(1, attempt, o.content)
                             ELSE Str(1, attempt, o.content)
                  IN EndAttempt(OutcomeKind(o, res), o.exc # "",
                                o.exc \in ClaudeRequestExceptions, res)
            /\ LET conv == ConvertOpenaiToolsToClaude(openai_tools)
               IN /\ request_tools' = IF tools THEN conv.claude_tools ELSE <<>>
                  /\ openai_tools' = IF tools THEN conv.openai_tools ELSE openai_tools
            /\ request' = ClaudeParams(api_key, options)

\* vllm_gptoss.py:100-141: one iteration of the retry loop
VllmAttempt ==
    /\ adapter = "vllm"
    /\ pc = "try"
    /\ \E o \in VllmOutcomes :
        LET res == Str(1, attempt, o.content)
        IN EndAttempt(OutcomeKind(o, res), o.exc # "", o.exc \in VllmRetryExceptions, res)
    /\ request' = VllmParams(api_key, options)
    /\ UNCHANGED <<openai_tools, request_tools>>

\* the delay of the backoff sleep after the failed attempt att
BackoffDelay(ad, base, att) ==
    CASE ad = "litellm" -> LiteLLMDelay(base, att)
      [] ad = "gemini" -> GeminiDelay(base, att)
      [] ad = "claude_gateway" -> ClaudeDelay(base, att)
      [] ad = "vllm" -> VllmDelay(base, att)

\* litellm.py:299-306, gemini.py:169-173, claude_gateway.py:193-197,
\* vllm_gptoss.py:132-136: time.sleep(delay), then the next iteration of the retry loop
Sleep ==
    /\ pc = "sleep"
    /\ log' = Append(log, SleepEvent(model_idx, attempt,
                                     BackoffDelay(adapter, base_delay, attempt)))
    /\ attempt' = attempt + 1
    /\ pc' = "try"
    /\ UNCHANGED <<adapter, config, total_cost, messages, response_format, tools, kwargs,
                   max_retries, base_delay, model_idx, result, raised, hist, cost_sum,
                   last_op, openai_tools, request_tools, before, request, api_key,
                   options>>
    /\ UNCHANGED side_vars

\* reset_cost leaves the accumulator as it is
MutResetCost ==
    /\ adapter = "litellm"
    /\ pc \in {"idle", "done"}
    /\ cost_sum' = 0
    /\ last_op' = "reset_cost"
    /\ UNCHANGED <<adapter, config, total_cost, pc, messages, response_format, tools, kwargs,
                   max_retries, base_delay, model_idx, attempt, result, raised, log, hist,
                   openai_tools, request_tools, before, request, api_key, options>>
    /\ UNCHANGED side_vars

\* litellm.py:352-357
ResetCost ==
    /\ adapter = "litellm"
    /\ pc \in {"idle", "done"}
    /\ total_cost' = 0
    /\ cost_sum' = 0
    /\ last_op' = "reset_cost"
    /\ UNCHANGED <<adapter, config, pc, messages, response_format, tools, kwargs, max_retries,
                   base_delay, model_idx, attempt, result, raised, log, hist,
                   openai_tools, request_tools, before, request, api_key, options>>
    /\ UNCHANGED side_vars

\* litellm.py:343-350
GetTotalCost == total_cost

Next ==
    \/ Generate \/ TryModelStep \/ ResetCost
    \/ GeminiGenerate \/ GeminiAttempt
    \/ ClaudeGenerate \/ ClaudeAttempt
    \/ VllmGenerate \/ VllmAttempt
    \/ Sleep

Spec == Init /\ [][Next]_vars

(***************************************************************************)
(* Progress of LiteLLMModel._generate.  completion() is called with a      *)
(* timeout and returns or raises; time.sleep(delay) returns after delay    *)
(* seconds: a running invocation always takes its next step.               *)
(***************************************************************************)
LiveInputs ==
    [formats |-> {FALSE}, tool_flags |-> BOOLEAN, retries |-> RetryArgs,
     delays |-> {NoArg}, options |-> {EmptyDict}]

\* litellm.py:112-131
LiveInit ==
    /\ Init
    /\ adapter = "litellm"
    /\ ~config.track_cost

\* litellm.py:247-283
LiveGenerate ==
    /\ adapter = "litellm"
    /\ EnterWith(LiteLLMDefaultMaxRetries, LiteLLMDefaultBaseDelay, LiveInputs)

LiveNext == LiveGenerate \/ TryModelStep \/ Sleep

LiveSpec ==
    /\ LiveInit
    /\ [][LiveNext]_vars
    /\ WF_vars(TryModelStep)
    /\ WF_vars(Sleep)

(***************************************************************************)
(* Credentials and call options.  An instance is constructed with or       *)
(* without an api_key; generate is called with and without tools,          *)
(* tool_choice and timeout; set_context is called between two generate     *)
(* calls, or by another thread while a generate call is running or         *)
(* sleeping.                                                               *)
(***************************************************************************)
\* the api_key of a configuration: none (the environment variable is not set), or one
ConfiguredKeys == {"", ConfiguredKey}

\* context.env: no API key, the key of one adapter, or the keys of all adapters
ContextEnvs ==
    {EmptyDict}
    \cup {[n \in {KeyName(ad)} |-> "k1"] : ad \in Adapters}
    \cup {[n \in {KeyName(ad) : ad \in Adapters} |-> "k2"]}

\* tool_choice and timeout as the caller passes them
OptionArgs ==
    {EmptyDict, [tool_choice |-> "auto"], [timeout |-> 5],
     [tool_choice |-> "auto", timeout |-> 5]}

RequestInputs ==
    [formats |-> {FALSE}, tool_flags |-> BOOLEAN, retries |-> {0, 1},
     delays |-> {NoArg}, options |-> OptionArgs]

DefaultMaxRetries(ad) ==
    CASE ad = "litellm" -> LiteLLMDefaultMaxRetries
      [] ad = "gemini" -> GeminiDefaultMaxRetries
      [] ad = "claude_gateway" -> ClaudeDefaultMaxRetries
      [] ad = "vllm" -> VllmDefaultMaxRetries

DefaultBaseDelay(ad) ==
    CASE ad = "litellm" -> LiteLLMDefaultBaseDelay
      [] ad = "gemini" -> GeminiDefaultBaseDelay
      [] ad = "claude_gateway" -> ClaudeDefaultBaseDelay
      [] ad = "vllm" -> VllmDefaultBaseDelay

\* litellm.py:112-131, gemini.py:64-66, claude_gateway.py:81-90, vllm_gptoss.py:66-68
RequestInit ==
    /\ adapter \in Adapters
    /\ config \in [model_name : {PrimaryName},
                   fallback_models : IF adapter = "litellm"
                                     THEN {<<>>, <<FallbackName(1)>>} ELSE {<<>>},
                   track_cost : {FALSE}]
    /\ api_key \in ConfiguredKeys
    /\ total_cost = 0
    /\ pc = "idle"
    /\ messages = <<>>
    /\ response_format = FALSE
    /\ tools = FALSE
    /\ kwargs = [max_retries |-> NoArg, base_delay |-> NoArg]
    /\ max_retries = 0
    /\ base_delay = 0
    /\ model_idx = 0
    /\ attempt = 0
    /\ result = None
    /\ raised = ""
    /\ log = <<>>
    /\ hist = <<>>
    /\ cost_sum = 0
    /\ last_op = "init"
    /\ openai_tools = <<>>
    /\ request_tools = <<>>
    /\ before = [messages |-> <<>>, tools |-> <<>>, api_key |-> ""]
    /\ request = EmptyDict
    /\ options = EmptyDict
    /\ threads = <<>>
    /\ blocks = <<>>
    /\ message = NoMessage
    /\ round_trip = NoTrip
    /\ task = NoTask

\* litellm.py:247-283, gemini.py:68-97, claude_gateway.py:92-121, vllm_gptoss.py:70-100
RequestGenerate ==
    EnterWith(DefaultMaxRetries(adapter), DefaultBaseDelay(adapter), RequestInputs)

\* litellm.py:321-330, gemini.py:319-324, claude_gateway.py:415-420,
\* vllm_gptoss.py:143-149: set_context with a context whose environment mapping is env
SetContextCall(env) ==
    /\ api_key' = NewApiKey(adapter, env, api_key)
    /\ last_op' = "set_context"
    /\ UNCHANGED <<adapter, config, total_cost, pc, messages, response_format, tools,
                   kwargs, max_retries, base_delay, model_idx, attempt, result, raised,
                   log, hist, cost_sum, openai_tools, request_tools, before, request,
                   options>>
    /\ UNCHANGED side_vars

SetContext == \E env \in ContextEnvs : SetContextCall(env)

RequestNext ==
    \/ RequestGenerate
    \/ TryModelStep
    \/ GeminiAttempt
    \/ ClaudeAttempt
    \/ VllmAttempt
    \/ Sleep
    \/ SetContext

RequestSpec == RequestInit /\ [][RequestNext]_vars

(***************************************************************************)
(* Concurrent callers of one LiteLLMModel instance.  Every thread calls    *)
(* generate once; self.total_cost is the only state they share.  The       *)
(* statement  self.total_cost += cost  is not guarded by a lock: it reads  *)
(* the attribute, adds, and writes the attribute, and another thread can   *)
(* run between the read and the write.  time.sleep suspends the thread     *)
(* that calls it.                                                          *)
(***************************************************************************)
Threads == 1..NumThreads

\* the variables of the sequential caller, which the threads leave alone
seq_vars == <<adapter, config, pc, messages, response_format, tools, kwargs, max_retries,
              base_delay, model_idx, attempt, result, raised, log, hist, last_op,
              openai_tools, request_tools, before, request, api_key, options, task>>

\* totals the instance has accumulated before the threads start
PreviousTotals == {0, 1}

\* max_retries as thread t passes it to generate: the first thread retries once,
\* the others do not retry
ThreadMaxRetries(t) == IF t = 1 THEN 1 ELSE 0

\* a thread that has not yet called generate; sleepers: the threads that were in a
\* backoff sleep when this thread called generate
ThreadIdle ==
    [pc |-> "idle", cost |-> 0, loaded |-> 0, max_retries |-> 0, attempt |-> 0,
     failed |-> FALSE, sleepers |-> {}]

\* a thread that has entered _try_model and not yet called completion
ThreadStart == [ThreadIdle EXCEPT !.pc = "call"]

\* litellm.py:296-306: where a thread goes after an attempt
AfterAttempt(th) == IF th.failed /\ th.attempt < th.max_retries THEN "sleep" ELSE "done"

\* litellm.py:112-131
ConcInit ==
    /\ adapter = "litellm"
    /\ config \in [model_name : {PrimaryName}, fallback_models : {<<>>},
                   track_cost : BOOLEAN]
    /\ total_cost \in PreviousTotals
    /\ cost_sum = total_cost
    /\ threads = [t \in Threads |-> ThreadIdle]
    /\ pc = "idle"
    /\ messages = <<>>
    /\ response_format = FALSE
    /\ tools = FALSE
    /\ kwargs = [max_retries |-> NoArg, base_delay |-> NoArg]
    /\ max_retries = 0
    /\ base_delay = 0
    /\ model_idx = 0
    /\ attempt = 0
    /\ result = None
    /\ raised = ""
    /\ log = <<>>
    /\ hist = <<>>
    /\ last_op = "generate"
    /\ openai_tools = <<>>
    /\ request_tools = <<>>
    /\ before = [messages |-> <<>>, tools |-> <<>>, api_key |-> ""]
    /\ request = EmptyDict
    /\ api_key = ConfiguredKey
    /\ options = EmptyDict
    /\ blocks = <<>>
    /\ message = NoMessage
    /\ round_trip = NoTrip
    /\ task = NoTask

\* litellm.py:277-294: thread t calls generate and reaches completion() of the
\* first attempt
ThreadEnter(t) ==
    /\ threads[t].pc = "idle"
    /\ threads' = [threads EXCEPT ![t] =
           [ThreadStart EXCEPT !.max_retries = ThreadMaxRetries(t),
                               !.sleepers = {u \in Threads : threads[u].pc = "sleep"}]]
    /\ UNCHANGED <<total_cost, cost_sum>>
    /\ UNCHANGED seq_vars
    /\ UNCHANGED translate_vars

\* litellm.py:210-216, 243-245, 296-299: the thread after completion() has
\* returned or raised
Completed(th, o) ==
    LET failed == TryModel(o, 1, th.attempt, FALSE, FALSE, config.track_cost).result = None
        after == [th EXCEPT !.cost = 0, !.loaded = 0, !.failed = failed]
    IN IF o.exc = "" /\ config.track_cost
       THEN [after EXCEPT !.pc = "load", !.cost = CalculateCost(o.report)]
       ELSE [after EXCEPT !.pc = AfterAttempt(after)]

\* a lock that a sleeping thread holds and that completion() needs
MutThreadCompletion(t) ==
    /\ threads[t].pc = "call"
    /\ \A u \in Threads : threads[u].pc # "sleep"
    /\ \E o \in CompletionOutcomes : threads' = [threads EXCEPT ![t] = Completed(@, o)]
    /\ UNCHANGED <<total_cost, cost_sum>>
    /\ UNCHANGED seq_vars
    /\ UNCHANGED translate_vars

\* litellm.py:210-216, 243-245, 296-299: completion() returns or raises in thread
\* t; with cost tracking the cost of the reply is computed, without it (or after
\* an exception) the thread leaves _try_model
ThreadCompletion(t) ==
    /\ threads[t].pc = "call"
    /\ \E o \in CompletionOutcomes : threads' = [threads EXCEPT ![t] = Completed(@, o)]
    /\ UNCHANGED <<total_cost, cost_sum>>
    /\ UNCHANGED seq_vars
    /\ UNCHANGED translate_vars

\* litellm.py:217: the read of self.total_cost in  self.total_cost += cost
ThreadLoadTotalCost(t) ==
    /\ threads[t].pc = "load"
    /\ threads' = [threads EXCEPT ![t].pc = "store", ![t].loaded = total_cost]
    /\ UNCHANGED <<total_cost, cost_sum>>
    /\ UNCHANGED seq_vars
    /\ UNCHANGED translate_vars

\* litellm.py:217: the write of self.total_cost in  self.total_cost += cost
ThreadStoreTotalCost(t) ==
    /\ threads[t].pc = "store"
    /\ total_cost' = AccumulateCost(threads[t].loaded, threads[t].cost)
    /\ cost_sum' = cost_sum + threads[t].cost
    /\ threads' = [threads EXCEPT ![t].pc = AfterAttempt(threads[t])]
    /\ UNCHANGED seq_vars
    /\ UNCHANGED translate_vars

\* litellm.py:306, 291-294: time.sleep returns in thread t, which starts its next
\* attempt
ThreadWake(t) ==
    /\ threads[t].pc = "sleep"
    /\ threads' = [threads EXCEPT ![t].pc = "call", ![t].attempt = @ + 1]
    /\ UNCHANGED <<total_cost, cost_sum>>
    /\ UNCHANGED seq_vars
    /\ UNCHANGED translate_vars

ConcNext ==
    \E t \in Threads :
        \/ ThreadEnter(t)
        \/ ThreadCompletion(t)
        \/ ThreadLoadTotalCost(t)
        \/ ThreadStoreTotalCost(t)
        \/ ThreadWake(t)

ConcSpec == ConcInit /\ [][ConcNext]_vars

(***************************************************************************)
(* Translation of tool calls between the form of the gateway (tool_use     *)
(* content blocks) and the OpenAI form (tool_calls of an assistant         *)
(* message), claude_gateway.py:215-248 and 339-408.  JSON text is a        *)
(* sequence of tokens; a dict is the sequence of its items in insertion    *)
(* order.                                                                  *)
(***************************************************************************)
Tok(t, v) == [t |-> t, v |-> v]

Punct(c) == Tok("punct", c)

\* the numbers and strings that occur as argument values
Scalars == {Tok("num", "1"), Tok("str", "x")}

\* a Python dict with the given items ([key, value] records, distinct keys)
Dict(items) == [py |-> "dict", items |-> items]

\* a Python str with the given text
PyStr(text) == [py |-> "str", items |-> text]

\* a number or a string that json.loads returns for a JSON text that is no object
PyScalar(tok) == [py |-> "scalar", items |-> <<tok>>]

\* d[key] = value: a new key is appended, a known key keeps its place
DictSet(items, key, value) ==
    IF \E i \in DOMAIN items : items[i].key = key
    THEN [i \in DOMAIN items |->
             IF items[i].key = key THEN [key |-> key, value |-> value] ELSE items[i]]
    ELSE Append(items, [key |-> key, value |-> value])

\* == of two Python values: dicts are equal when they hold the same items
PyEq(x, y) ==
    /\ x.py = y.py
    /\ IF x.py = "dict"
       THEN {x.items[i] : i \in DOMAIN x.items} = {y.items[i] : i \in DOMAIN y.items}
       ELSE x.items = y.items

RECURSIVE DumpItems(_)
\* the items of an object as json.dumps writes them: "key": value, separated by commas
DumpItems(items) ==
    IF items = <<>> THEN <<>>
    ELSE <<Tok("str", Head(items).key), Punct(":"), Head(items).value>>
         \o (IF Len(items) > 1 THEN <<Punct(",")>> ELSE <<>>)
         \o DumpItems(Tail(items))

RECURSIVE ReprItems(_)
\* the items of a dict as str() writes them: keys in single quotes
ReprItems(items) ==
    IF items = <<>> THEN <<>>
    ELSE <<Tok("sqstr", Head(items).key), Punct(":"), Head(items).value>>
         \o (IF Len(items) > 1 THEN <<Punct(",")>> ELSE <<>>)
         \o ReprItems(Tail(items))

\* str(tool_input) is used for a dict as well
MutJsonDumps(d) == <<Punct("{")>> \o ReprItems(d.items) \o <<Punct("}")>>

\* claude_gateway.py:392  json.dumps(tool_input): the text of a dict
JsonDumps(d) == <<Punct("{")>> \o DumpItems(d.items) \o <<Punct("}")>>

JsonError == [ok |-> FALSE, value |-> Dict(<<>>)]

RECURSIVE ParseItems(_, _)
\* the items between the braces of an object, after the items acc
ParseItems(toks, acc) ==
    IF /\ Len(toks) >= 3
       /\ toks[1].t = "str"
       /\ toks[2] = Punct(":")
       /\ toks[3] \in Scalars
    THEN LET items == DictSet(acc, toks[1].v, toks[3])
             rest == SubSeq(toks, 4, Len(toks))
         IN IF rest = <<>> THEN [ok |-> TRUE, value |-> Dict(items)]
            ELSE IF rest[1] = Punct(",") THEN ParseItems(Tail(rest), items)
            ELSE JsonError
    ELSE JsonError

\* claude_gateway.py:234  json.loads(arguments): the value of a JSON text, or
\* JSONDecodeError (ok = FALSE)
JsonLoads(text) ==
    IF Len(text) = 1 /\ text[1] \in Scalars THEN [ok |-> TRUE, value |-> PyScalar(text[1])]
    ELSE IF Len(text) >= 2 /\ text[1] = Punct("{") /\ text[Len(text)] = Punct("}")
    THEN IF Len(text) = 2 THEN [ok |-> TRUE, value |-> Dict(<<>>)]
         ELSE ParseItems(SubSeq(text, 2, Len(text) - 1), <<>>)
    ELSE JsonError

\* claude_gateway.py:391-395: "arguments" of the tool call made from a block
ToolCallArguments(tool_input) ==
    IF tool_input.py = "dict" THEN PyStr(JsonDumps(tool_input)) ELSE PyStr(tool_input.items)

IsToolUse(block) == block.type = "tool_use"

IsText(block) == block.type = "text"

RECURSIVE JoinText(_)
\* claude_gateway.py:373-378: text_content += block.get('text', '')
JoinText(bs) ==
    IF bs = <<>> THEN <<>>
    ELSE (IF IsText(Head(bs)) THEN Head(bs).text ELSE <<>>) \o JoinText(Tail(bs))

\* claude_gateway.py:339-408: the message of the response object made from the
\* result blocks of a reply; an empty content or tool_calls is None
CreateOpenaiStyleResponse(result_blocks) ==
    LET uses == SelectSeq(result_blocks, IsToolUse)
        ToolCall(b) ==
            [id |-> b.id, type |-> "function",
             function |-> [name |-> b.name, arguments |-> ToolCallArguments(b.input)]]
    IN [role |-> "assistant",
        content |-> JoinText(result_blocks),
        tool_calls |-> [i \in 1..Len(uses) |-> ToolCall(uses[i])]]

IsFunctionCall(tool_call) == tool_call.type = "function"

\* claude_gateway.py:231-236: arguments that are a JSON string are parsed, a string
\* that does not parse becomes {}
ToolUseInput(arguments) ==
    IF arguments.py = "str"
    THEN LET parsed == JsonLoads(arguments.items)
         IN IF parsed.ok THEN parsed.value ELSE Dict(<<>>)
    ELSE arguments

\* claude_gateway.py:215-248
HandleAssistantMessageWithTools(msg) ==
    LET calls == SelectSeq(msg.tool_calls, IsFunctionCall)
        ToolUse(c) ==
            [type |-> "tool_use", id |-> c.id, name |-> c.function.name,
             input |-> ToolUseInput(c.function.arguments)]
    IN [role |-> "assistant",
        content |->
            (IF msg.content # <<>> THEN <<[type |-> "text", text |-> msg.content]>>
             ELSE <<>>)
            \o [i \in 1..Len(calls) |-> ToolUse(calls[i])]]

\* arguments of tool calls: empty, one and two items, the same items in two orders
ArgumentDicts ==
    {Dict(<<>>)}
    \cup {Dict(<<[key |-> "a", value |-> s]>>) : s \in Scalars}
    \cup {Dict(<<[key |-> "a", value |-> s], [key |-> "b", value |-> u]>>) :
             s, u \in Scalars}
    \cup {Dict(<<[key |-> "b", value |-> s], [key |-> "a", value |-> s]>>) : s \in Scalars}

\* a text that is not JSON
NotJson == PyStr(<<Tok("word", "oops")>>)

\* the input of a tool_use block: a dict, or a string where a dict is expected
ToolInputs == ArgumentDicts \cup {NotJson}

ToolUseBlock(id, name, input) ==
    [type |-> "tool_use", id |-> id, name |-> name, input |-> input]

TextBlock == [type |-> "text", text |-> <<"Let", "me", "check">>]

\* result blocks of a reply of the gateway that carries tool calls
BlockLists ==
    {<<ToolUseBlock("toolu_1", "f", i)>> : i \in ToolInputs}
    \cup {<<TextBlock, ToolUseBlock("toolu_1", "f", i)>> : i \in ToolInputs}
    \cup {<<ToolUseBlock("toolu_1", "f", i), ToolUseBlock("toolu_2", "g", j)>> :
             i, j \in ToolInputs}

\* "arguments" of a tool call in OpenAI form: the JSON text of a dict, a dict, or
\* a text that is not JSON
ToolArguments ==
    {PyStr(JsonDumps(d)) : d \in ArgumentDicts} \cup ArgumentDicts \cup {NotJson}

\* assistant messages with tool calls, as the caller puts them into messages
AssistantMessages ==
    {[role |-> "assistant", content |-> c,
      tool_calls |-> <<[id |-> "call_1", type |-> "function",
                        function |-> [name |-> "f", arguments |-> a]]>>] :
         c \in {<<>>, <<"Checking">>}, a \in ToolArguments}

\* the value to translate: a reply of the gateway, or an assistant message of the
\* caller
TranslateInit ==
    /\ \/ /\ blocks \in BlockLists
          /\ message = NoMessage
          /\ round_trip = [origin |-> "wire", side |-> "wire", start |-> blocks,
                           returned |-> FALSE]
       \/ /\ message \in AssistantMessages
          /\ blocks = <<>>
          /\ round_trip = [origin |-> "canonical", side |-> "canonical",
                           start |-> message, returned |-> FALSE]
    /\ adapter = "claude_gateway"
    /\ config = [model_name |-> PrimaryName, fallback_models |-> <<>>, track_cost |-> FALSE]
    /\ total_cost = 0
    /\ cost_sum = 0
    /\ threads = <<>>
    /\ task = NoTask
    /\ pc = "idle"
    /\ messages = <<>>
    /\ response_format = FALSE
    /\ tools = FALSE
    /\ kwargs = [max_retries |-> NoArg, base_delay |-> NoArg]
    /\ max_retries = 0
    /\ base_delay = 0
    /\ model_idx = 0
    /\ attempt = 0
    /\ result = None
    /\ raised = ""
    /\ log = <<>>
    /\ hist = <<>>
    /\ last_op = "init"
    /\ openai_tools = <<>>
    /\ request_tools = <<>>
    /\ before = [messages |-> <<>>, tools |-> <<>>, api_key |-> ""]
    /\ request = EmptyDict
    /\ api_key = ConfiguredKey
    /\ options = EmptyDict

\* claude_gateway.py:179-180 with 339-408: the reply becomes a response object in
\* OpenAI form
ReceiveToolCalls ==
    /\ round_trip.side = "wire"
    /\ message' = CreateOpenaiStyleResponse(blocks)
    /\ round_trip' = [round_trip EXCEPT !.side = "canonical",
                                        !.returned = @ \/ round_trip.origin = "canonical"]
    /\ UNCHANGED <<blocks, total_cost, cost_sum, threads>>
    /\ UNCHANGED seq_vars

\* claude_gateway.py:295-296 with 215-248: an assistant message with tool calls
\* becomes the content blocks of a request
SendToolCalls ==
    /\ round_trip.side = "canonical"
    /\ message.tool_calls # <<>>
    /\ blocks' = HandleAssistantMessageWithTools(message).content
    /\ round_trip' = [round_trip EXCEPT !.side = "wire",
                                        !.returned = @ \/ round_trip.origin = "wire"]
    /\ UNCHANGED <<message, total_cost, cost_sum, threads>>
    /\ UNCHANGED seq_vars

TranslateNext == ReceiveToolCalls \/ SendToolCalls

TranslateSpec == TranslateInit /\ [][TranslateNext]_vars

(***************************************************************************)
(* Conversations.  The caller passes a conversation in OpenAI form: system *)
(* and user messages, assistant messages with and without tool calls, and  *)
(* tool messages that carry the result of a tool call.  A text is the      *)
(* sequence of its words.                                                  *)
(***************************************************************************)
SystemMessage == [role |-> "system", content |-> <<"Be", "brief">>]

UserMessage == [role |-> "user", content |-> <<"Weather", "in", "Paris">>]

AssistantText == [role |-> "assistant", content |-> <<"Sunny">>]

\* a system message in the middle of a conversation
SystemNote == [role |-> "system", content |-> <<"Use", "Celsius">>]

ToolCall(id, name) ==
    [id |-> id, type |-> "function",
     function |-> [name |-> name,
                   arguments |-> PyStr(JsonDumps(Dict(<<[key |-> "a",
                                                         value |-> Tok("num", "1")]>>)))]]

\* an assistant message that calls tools, with or without a text
AssistantCalls(text, calls) == [role |-> "assistant", content |-> text, tool_calls |-> calls]

ToolMessage(id) == [role |-> "tool", tool_call_id |-> id, content |-> <<"18", "degrees">>]

\* a tool message without the key tool_call_id
ToolMessageNoId == [role |-> "tool", content |-> <<"18", "degrees">>]

\* how a conversation continues after its first user message
Continuations ==
    {<<>>,
     <<AssistantText, UserMessage>>,
     <<AssistantText, SystemNote, UserMessage>>,
     <<AssistantCalls(<<>>, <<ToolCall("call_1", "f")>>), ToolMessage("call_1")>>,
     <<AssistantCalls(<<"Checking">>, <<ToolCall("call_1", "f")>>), ToolMessage("call_1"),
       AssistantText>>,
     <<AssistantCalls(<<>>, <<ToolCall("call_1", "f"), ToolCall("call_2", "g")>>),
       ToolMessage("call_1"), ToolMessage("call_2")>>,
     <<AssistantCalls(<<>>, <<ToolCall("call_1", "f")>>), ToolMessage("call_2")>>,
     <<ToolMessage("call_1")>>,
     <<ToolMessage("call_1"), AssistantCalls(<<>>, <<ToolCall("call_1", "f")>>)>>,
     <<AssistantCalls(<<>>, <<ToolCall("call_1", "f")>>), ToolMessageNoId>>}

Conversations ==
    {start \o rest : start \in {<<UserMessage>>, <<SystemMessage, UserMessage>>},
                     rest \in Continuations}

IsSystem(m) == m.role = "system"

\* gemini.py:101-106: message.get("content") is true
HasContent(m) == "content" \in DOMAIN m /\ m.content # <<>>

IsGeminiSystemText(m) == IsSystem(m) /\ HasContent(m)

IsGeminiText(m) == ~IsSystem(m) /\ HasContent(m)

RECURSIVE Join(_, _)
\* sep.join(texts)
Join(sep, texts) ==
    IF texts = <<>> THEN <<>>
    ELSE IF Len(texts) = 1 THEN Head(texts)
         ELSE Head(texts) \o <<sep>> \o Join(sep, Tail(texts))

\* gemini.py:99-142: the system instruction and the contents of the request
GeminiRequest(msgs) ==
    LET system_messages == SelectSeq(msgs, IsGeminiSystemText)
        formatted_messages == SelectSeq(msgs, IsGeminiText)
    IN [system_instruction |-> Join("\n\n", [i \in DOMAIN system_messages |->
                                                system_messages[i].content]),
        contents |-> Join("\n\n", [i \in DOMAIN formatted_messages |->
                                      formatted_messages[i].content])]

\* claude_gateway.py:208-213
HandleUserMessage(m) == [role |-> "user", content |-> m.content]

\* claude_gateway.py:250-255
HandleAssistantMessage(m) == [role |-> "assistant", content |-> m.content]

\* claude_gateway.py:257-268
HandleToolMessage(m) ==
    [role |-> "user",
     content |-> <<[type |-> "tool_result", tool_use_id |-> m.tool_call_id,
                    content |-> m.content]>>]

\* claude_gateway.py:294: "tool_calls" in message and message["tool_calls"]
HasToolCalls(m) == "tool_calls" \in DOMAIN m /\ m.tool_calls # <<>>

IsClaudeMessage(m) == m.role \in {"user", "assistant", "tool"}

\* claude_gateway.py:264: message["tool_call_id"] raises KeyError
RaisesKeyError(m) == m.role = "tool" /\ "tool_call_id" \notin DOMAIN m

IsToolMessage(m) == m.role = "tool"

IsUserOrAssistant(m) == m.role \in {"user", "assistant"}

\* the tool results are collected after the other messages
MutConvertOpenaiMessagesToClaude(msgs) ==
    LET system_messages == SelectSeq(msgs, IsSystem)
        others == SelectSeq(msgs, IsUserOrAssistant) \o SelectSeq(msgs, IsToolMessage)
        Handle(m) ==
            CASE m.role = "user" -> HandleUserMessage(m)
              [] m.role = "assistant" ->
                    IF HasToolCalls(m) THEN HandleAssistantMessageWithTools(m)
                    ELSE HandleAssistantMessage(m)
              [] m.role = "tool" -> HandleToolMessage(m)
    IN IF \E i \in DOMAIN msgs : RaisesKeyError(msgs[i])
       THEN [ok |-> FALSE, system_messages |-> <<>>, claude_messages |-> <<>>]
       ELSE [ok |-> TRUE,
             system_messages |-> [i \in DOMAIN system_messages |->
                                     system_messages[i].content],
             claude_messages |-> [i \in DOMAIN others |-> Handle(others[i])]]

\* claude_gateway.py:270-302; ok is FALSE when a handler raises
ConvertOpenaiMessagesToClaude(msgs) ==
    LET system_messages == SelectSeq(msgs, IsSystem)
        others == SelectSeq(msgs, IsClaudeMessage)
        Handle(m) ==
            CASE m.role = "user" -> HandleUserMessage(m)
              [] m.role = "assistant" ->
                    IF HasToolCalls(m) THEN HandleAssistantMessageWithTools(m)
                    ELSE HandleAssistantMessage(m)
              [] m.role = "tool" -> HandleToolMessage(m)
    IN IF \E i \in DOMAIN msgs : RaisesKeyError(msgs[i])
       THEN [ok |-> FALSE, system_messages |-> <<>>, claude_messages |-> <<>>]
       ELSE [ok |-> TRUE,
             system_messages |-> [i \in DOMAIN system_messages |->
                                     system_messages[i].content],
             claude_messages |-> [i \in DOMAIN others |-> Handle(others[i])]]

\* dict.update
Update(d, e) == [k \in DOMAIN d \cup DOMAIN e |-> IF k \in DOMAIN e THEN e[k] ELSE d[k]]

\* claude_gateway.py:128-143: system and prompts of the request
ClaudeRequest(msgs) ==
    LET conv == ConvertOpenaiMessagesToClaude(msgs)
    IN [system |-> Join("\n", conv.system_messages), prompts |-> conv.claude_messages]

\* an instance of the Gemini or of the gateway adapter and the conversation its
\* caller holds
ConversationInit ==
    /\ adapter \in {"gemini", "claude_gateway"}
    /\ messages \in Conversations
    /\ config = [model_name |-> PrimaryName, fallback_models |-> <<>>, track_cost |-> FALSE]
    /\ api_key = ConfiguredKey
    /\ total_cost = 0
    /\ pc = "idle"
    /\ response_format = FALSE
    /\ tools = FALSE
    /\ kwargs = [max_retries |-> NoArg, base_delay |-> NoArg]
    /\ max_retries = 0
    /\ base_delay = 0
    /\ model_idx = 0
    /\ attempt = 0
    /\ result = None
    /\ raised = ""
    /\ log = <<>>
    /\ hist = <<>>
    /\ cost_sum = 0
    /\ last_op = "init"
    /\ openai_tools = <<>>
    /\ request_tools = <<>>
    /\ before = [messages |-> <<>>, tools |-> <<>>, api_key |-> ""]
    /\ request = EmptyDict
    /\ options = EmptyDict
    /\ threads = <<>>
    /\ blocks = <<>>
    /\ message = NoMessage
    /\ round_trip = NoTrip
    /\ task = NoTask

\* generate(messages) without further arguments, from the call to its return: no
\* retry (max_retries is 0), one request when sent is TRUE, none otherwise
Converse(sent, req, kind, res) ==
    /\ pc = "idle"
    /\ pc' = "done"
    /\ last_op' = "generate"
    /\ before' = [messages |-> messages, tools |-> <<>>, api_key |-> api_key]
    /\ model_idx' = 1
    /\ log' = IF sent THEN <<CallEvent(1, 0)>> ELSE <<>>
    /\ hist' = <<Record(NoHist, kind)>>
    /\ request' = req
    /\ result' = res
    /\ raised' = ""
    /\ UNCHANGED <<adapter, config, total_cost, messages, response_format, tools, kwargs,
                   max_retries, base_delay, attempt, cost_sum, openai_tools,
                   request_tools, api_key, options>>
    /\ UNCHANGED side_vars

\* gemini.py:68-173
GeminiConverse ==
    /\ adapter = "gemini"
    /\ \E o \in GeminiOutcomes :
          LET res == GeminiResult(o, 0, FALSE, FALSE)
          IN Converse(TRUE,
                      Update(GeminiParams(api_key, EmptyDict), GeminiRequest(messages)),
                      OutcomeKind(o, res),
                      IF o.exc # "" THEN None ELSE res)

\* claude_gateway.py:92-202: a KeyError of the conversion is caught by
\* "except Exception" and None is returned before a request is sent
ClaudeConverse ==
    /\ adapter = "claude_gateway"
    /\ IF ConvertOpenaiMessagesToClaude(messages).ok
       THEN \E o \in ClaudeOutcomes :
               Converse(TRUE,
                        Update(ClaudeParams(api_key, EmptyDict), ClaudeRequest(messages)),
                        OutcomeKind(o, Str(1, 0, o.content)),
                        IF o.exc # "" THEN None ELSE Str(1, 0, o.content))
       ELSE Converse(FALSE, EmptyDict, "KeyError", None)

ConversationNext == GeminiConverse \/ ClaudeConverse

ConversationSpec == ConversationInit /\ [][ConversationNext]_vars

(***************************************************************************)
(* Parameter schemas.  A Gemini instance is called once with one function  *)
(* tool whose parameter schema is nested up to three levels and carries    *)
(* keys the translation does not know (title, format,                      *)
(* additionalProperties) at every level.                                   *)
(***************************************************************************)
LeafSchemas ==
    {[type |-> "string"],
     [type |-> "string", description |-> "dx", title |-> "X"],
     [description |-> "dy"],
     [type |-> "number", format |-> "int32"]}

NestedArraySchemas ==
    {[type |-> "array", items |-> l] : l \in LeafSchemas \cup {EmptyDict}}
    \cup {[type |-> "array", title |-> "L", items |-> [type |-> "array", items |-> l]] :
             l \in {[type |-> "string"], [description |-> "dy"]}}

NestedObjectSchemas ==
    {[type |-> "object", title |-> "Args", additionalProperties |-> "false",
      required |-> <<"x">>, properties |-> [x |-> l, n |-> a]] :
         l \in {[type |-> "string", description |-> "dx", title |-> "X"],
                [type |-> "number", format |-> "int32"]},
         a \in {[type |-> "array", items |-> [type |-> "number", format |-> "int32"]],
                [type |-> "array", items |-> EmptyDict]}}
    \cup {[properties |-> [o |-> [title |-> "Inner", properties |-> [x |-> l]]]] :
             l \in LeafSchemas}

Schemas == {EmptyDict} \cup LeafSchemas \cup NestedArraySchemas \cup NestedObjectSchemas

\* the tool lists of the caller: one function tool with a parameter schema
SchemaToolLists ==
    {<<[type |-> "function",
        function |-> [name |-> "f", description |-> "df", parameters |-> sc]]>> :
        sc \in Schemas}

\* gemini.py:64-66 and the tools its caller holds
SchemaInit ==
    /\ adapter = "gemini"
    /\ openai_tools \in SchemaToolLists
    /\ config = [model_name |-> PrimaryName, fallback_models |-> <<>>, track_cost |-> FALSE]
    /\ api_key = ConfiguredKey
    /\ total_cost = 0
    /\ pc = "idle"
    /\ messages = <<>>
    /\ response_format = FALSE
    /\ tools = FALSE
    /\ kwargs = [max_retries |-> NoArg, base_delay |-> NoArg]
    /\ max_retries = 0
    /\ base_delay = 0
    /\ model_idx = 0
    /\ attempt = 0
    /\ result = None
    /\ raised = ""
    /\ log = <<>>
    /\ hist = <<>>
    /\ cost_sum = 0
    /\ last_op = "init"
    /\ request_tools = <<>>
    /\ before = [messages |-> <<>>, tools |-> <<>>, api_key |-> ""]
    /\ request = EmptyDict
    /\ options = EmptyDict
    /\ threads = <<>>
    /\ blocks = <<>>
    /\ message = NoMessage
    /\ round_trip = NoTrip
    /\ task = NoTask

\* gemini.py:68-173: generate(messages, tools=openai_tools) without further
\* arguments, from the call to its return (max_retries is 0: no retry)
GeminiToolsGenerate ==
    /\ adapter = "gemini"
    /\ pc = "idle"
    /\ \E msgs \in MessageLists(FALSE), o \in GeminiOutcomes :
          LET res == GeminiResult(o, 0, FALSE, TRUE)
          IN /\ messages' = msgs
             /\ before' = [messages |-> msgs, tools |-> openai_tools, api_key |-> api_key]
             /\ hist' = <<Record(NoHist, OutcomeKind(o, res))>>
             /\ result' = IF o.exc # "" THEN None ELSE res
    /\ tools' = TRUE
    /\ model_idx' = 1
    /\ log' = <<CallEvent(1, 0)>>
    /\ request_tools' = ConvertOpenaiToolsToGemini(openai_tools)
    /\ request' = GeminiParams(api_key, EmptyDict)
    /\ pc' = "done"
    /\ raised' = ""
    /\ last_op' = "generate"
    /\ UNCHANGED <<adapter, config, total_cost, response_format, kwargs, max_retries,
                   base_delay, attempt, cost_sum, openai_tools, api_key, options>>
    /\ UNCHANGED side_vars

SchemaNext == GeminiToolsGenerate

SchemaSpec == SchemaInit /\ [][SchemaNext]_vars

(***************************************************************************)
(* AgentTask._run_task (pipeline/task.py).  One agent of a named           *)
(* collection runs one task.  task.calls lists, in order, what the run has *)
(* done with the agent, the task and the trace collector; every call may   *)
(* raise.  The LLM adapter is not part of this specification.              *)
(***************************************************************************)
\* the variables of the LLM adapter and of its callers
llm_vars == <<adapter, config, total_cost, pc, messages, response_format, tools, kwargs,
              max_retries, base_delay, model_idx, attempt, result, raised, log, hist,
              cost_sum, last_op, openai_tools, request_tools, before, request, api_key,
              options, threads, blocks, message, round_trip>>

\* task.py:23-33: a TaskInput names a collection (which the worker has or has
\* not) and an agent_index; the collection has size agents; the task does or
\* does not bring its own MCP servers
TaskInputs ==
    {[NoTask EXCEPT !.known = k, !.size = n, !.index = i, !.specified = s] :
        k \in BOOLEAN, n \in 0..MaxAgents, i \in (0 - 1)..(MaxAgents + 1),
        s \in BOOLEAN}

TaskInit ==
    /\ task \in {t \in TaskInputs : IF t.known THEN t.size >= 1 ELSE t.size = 0}
    /\ adapter = "litellm"
    /\ config = [model_name |-> PrimaryName, fallback_models |-> <<>>, track_cost |-> FALSE]
    /\ api_key = ConfiguredKey
    /\ total_cost = 0
    /\ pc = "idle"
    /\ messages = <<>>
    /\ response_format = FALSE
    /\ tools = FALSE
    /\ kwargs = [max_retries |-> NoArg, base_delay |-> NoArg]
    /\ max_retries = 0
    /\ base_delay = 0
    /\ model_idx = 0
    /\ attempt = 0
    /\ result = None
    /\ raised = ""
    /\ log = <<>>
    /\ hist = <<>>
    /\ cost_sum = 0
    /\ last_op = "init"
    /\ openai_tools = <<>>
    /\ request_tools = <<>>
    /\ before = [messages |-> <<>>, tools |-> <<>>, api_key |-> ""]
    /\ request = EmptyDict
    /\ options = EmptyDict
    /\ threads = <<>>
    /\ blocks = <<>>
    /\ message = NoMessage
    /\ round_trip = NoTrip

\* collection[index] of a Python sequence of n items: negative indexes count
\* from the end, everything else raises IndexError
IndexInRange(n, index) == 0 - n <= index /\ index < n

\* the run has called what
Called(t, what) == [t EXCEPT !.calls = Append(@, what)]

\* what raised propagates out of _run_task
Propagates(t, what) == [Called(t, what) EXCEPT !.pc = "done", !.raised = what]

\* task.py:104, 123: task.use_specified_server() and isinstance(agent, BaseAgent)
UseSpecifiedServer(t) == t.specified

\* task.py:85-91: the two checks of the input, the trace collector and the
\* choice of the agent
RunTask ==
    /\ task.pc = "idle"
    /\ task' = IF ~task.known
                 THEN [task EXCEPT !.pc = "done", !.returned = "None"]
               ELSE IF task.index > task.size
                 THEN [task EXCEPT !.pc = "done", !.returned = "None"]
               ELSE IF IndexInRange(task.size, task.index)
                 THEN [Called(task, "index") EXCEPT !.pc = "initialize"]
               ELSE [Called(task, "index") EXCEPT !.pc = "done",
                                                  !.raised = "IndexError"]
    /\ UNCHANGED llm_vars

\* task.py:94: await agent.initialize()
AgentInitialize ==
    /\ task.pc = "initialize"
    /\ \E ok \in BOOLEAN :
          task' = IF ok THEN [Called(task, "agent.initialize") EXCEPT !.pc = "create"]
                  ELSE Propagates(task, "agent.initialize")
    /\ UNCHANGED llm_vars

\* task.py:95-101: the task object, its question and its output format; a
\* failure is logged and None is returned
CreateTask ==
    /\ task.pc = "create"
    /\ \E ok \in BOOLEAN :
          task' = IF ok
                    THEN [Called(task, "Task") EXCEPT
                             !.pc = IF UseSpecifiedServer(task) THEN "change_servers"
                                    ELSE "reset"]
                  ELSE [Called(task, "Task") EXCEPT !.pc = "done", !.returned = "None"]
    /\ UNCHANGED llm_vars

\* task.py:114-115: except Exception as e: result = str(e)
Caught(t, what) == [Called(t, what) EXCEPT !.pc = "evaluate", !.result = "error"]

\* task.py:104-105: await agent.change_servers(task.get_mcp_servers())
ChangeServers ==
    /\ task.pc = "change_servers"
    /\ \E ok \in BOOLEAN :
          task' = IF ok THEN [Called(task, "agent.change_servers") EXCEPT !.pc = "reset"]
                  ELSE Caught(task, "agent.change_servers")
    /\ UNCHANGED llm_vars

\* task.py:106: agent.reset()
AgentReset ==
    /\ task.pc = "reset"
    /\ \E ok \in BOOLEAN :
          task' = IF ok THEN [Called(task, "agent.reset") EXCEPT !.pc = "execute"]
                  ELSE Caught(task, "agent.reset")
    /\ UNCHANGED llm_vars

\* task.py:107-113: the tracer is bound, then the agent executes the question
\* and the response is turned into the result string
AgentExecute ==
    /\ task.pc = "execute"
    /\ \E ok \in BOOLEAN :
          task' = IF ok
                    THEN [Called(task, "agent.execute") EXCEPT
                             !.pc = "evaluate", !.tracer = TRUE, !.result = "response"]
                  ELSE [Caught(task, "agent.execute") EXCEPT !.tracer = TRUE]
    /\ UNCHANGED llm_vars

\* task.py:117: evaluation_results = await task.evaluate(result)
TaskEvaluate ==
    /\ task.pc = "evaluate"
    /\ \E ok \in BOOLEAN :
          task' = IF ok THEN [Called(task, "task.evaluate") EXCEPT !.pc = "trace"]
                  ELSE Propagates(task, "task.evaluate")
    /\ UNCHANGED llm_vars

\* task.py:118: trace_collector.get(tracer.trace_id); tracer is a local that
\* only line 107 binds
GetTraceRecords ==
    /\ task.pc = "trace"
    /\ task' = IF task.tracer
                 THEN [Called(task, "trace_collector.get") EXCEPT !.pc = "task_reset"]
               ELSE [task EXCEPT !.pc = "done", !.raised = "UnboundLocalError"]
    /\ UNCHANGED llm_vars

\* task.py:121: await task.reset(trace_records)
TaskReset ==
    /\ task.pc = "task_reset"
    /\ \E ok \in BOOLEAN :
          task' = IF ok THEN [Called(task, "task.reset") EXCEPT !.pc = "task_cleanup"]
                  ELSE Propagates(task, "task.reset")
    /\ UNCHANGED llm_vars

\* task.py:122: await task.cleanup()
TaskCleanup ==
    /\ task.pc = "task_cleanup"
    /\ \E ok \in BOOLEAN :
          task' = IF ok
                    THEN [Called(task, "task.cleanup") EXCEPT
                             !.pc = IF UseSpecifiedServer(task) THEN "server_cleanup"
                                    ELSE "agent_cleanup"]
                  ELSE Propagates(task, "task.cleanup")
    /\ UNCHANGED llm_vars

\* task.py:123-124: the agent that changed its servers is cleaned up
ServerCleanup ==
    /\ task.pc = "server_cleanup"
    /\ \E ok \in BOOLEAN :
          task' = IF ok THEN [Called(task, "agent.cleanup") EXCEPT !.pc = "agent_cleanup"]
                  ELSE Propagates(task, "agent.cleanup")
    /\ UNCHANGED llm_vars

\* task.py:125-131: await agent.cleanup(), then the dict of the result, the
\* evaluation results and the trace is returned
AgentCleanup ==
    /\ task.pc = "agent_cleanup"
    /\ \E ok \in BOOLEAN :
          task' = IF ok
                    THEN [Called(task, "agent.cleanup") EXCEPT
                             !.pc = "done", !.returned = "dict"]
                  ELSE Propagates(task, "agent.cleanup")
    /\ UNCHANGED llm_vars

TaskNext ==
    \/ RunTask
    \/ AgentInitialize
    \/ CreateTask
    \/ ChangeServers
    \/ AgentReset
    \/ AgentExecute
    \/ TaskEvaluate
    \/ GetTraceRecords
    \/ TaskReset
    \/ TaskCleanup
    \/ ServerCleanup
    \/ AgentCleanup

TaskSpec == TaskInit /\ [][TaskNext]_vars

(***************************************************************************)
(* Properties.                                                             *)
(***************************************************************************)
\* the candidate list of the instance, as the configuration gives it
Candidates == <<config.model_name>> \o config.fallback_models

NumCandidates == Len(Candidates)

CallIndexes == {k \in 1..Len(log) : log[k].ev = "call"}

\* number of completion calls made so far for candidate i
Calls(i) == Cardinality({k \in CallIndexes : log[k].idx = i})

\* number of backoff sleeps made so far for candidate i
Sleeps(i) == Cardinality({k \in 1..Len(log) : log[k].ev = "sleep" /\ log[k].idx = i})

\* every call made so far to candidate i raised a retryable error
AlwaysFailedRetryably(i) == hist[i].all_retryable /\ hist[i].last \in RetryableErrors

\* the running invocation has left candidate i behind
Left(i) == model_idx > i \/ (pc = "done" /\ hist[i].last \notin {"", "ok"})

InLiteLLM == adapter = "litellm" /\ pc # "idle"

\* C1: LiteLLM calls the primary model, then the fallback models in configured
\* order: every call goes to the candidate at its position of
\* [model_name] + fallback_models, and a call to a candidate is never followed by
\* a call to an earlier candidate.
C1_CandidateOrder ==
    InLiteLLM =>
        /\ \A k \in CallIndexes :
              /\ log[k].idx \in 1..NumCandidates
              /\ log[k].model = Candidates[log[k].idx]
        /\ \A j, k \in CallIndexes : j < k => log[j].idx <= log[k].idx
        /\ \A i \in 2..NumCandidates : Calls(i) > 0 => Calls(i - 1) > 0

C1_Witness ==
    /\ InLiteLLM
    /\ NumCandidates = 2
    /\ Calls(1) = 2
    /\ Calls(2) = 1
    /\ log[Len(log)].model = "B"

\* C2: when the first K candidates fail every attempt with retryable errors and
\* candidate K+1 succeeds, _generate has returned the result of candidate K+1, the
\* successful call is the last provider call, and no later candidate was called.
C2_FirstSuccessReturns ==
    InLiteLLM =>
        \A K \in 0..(NumCandidates - 1) :
            (/\ \A i \in 1..K : AlwaysFailedRetryably(i)
             /\ hist[K + 1].last = "ok")
            => /\ pc = "done"
               /\ raised = ""
               /\ result # None
               /\ result.idx = K + 1
               /\ log[Len(log)] = CallEvent(K + 1, result.att)
               /\ \A i \in (K + 2)..NumCandidates : Calls(i) = 0

C2_Witness ==
    /\ InLiteLLM
    /\ NumCandidates = 2
    /\ AlwaysFailedRetryably(1)
    /\ Calls(1) = 3
    /\ hist[2].last = "ok"
    /\ result.idx = 2

\* C3: a candidate whose every call failed with a retryable error has received
\* exactly max_retries + 1 calls when _generate moves to the next candidate or
\* returns.
C3_RetryCount ==
    InLiteLLM =>
        \A i \in 1..NumCandidates :
            (AlwaysFailedRetryably(i) /\ Left(i)) => Calls(i) = max_retries + 1

C3_Witness ==
    /\ InLiteLLM
    /\ NumCandidates = 2
    /\ max_retries = 2
    /\ AlwaysFailedRetryably(1)
    /\ model_idx = 2
    /\ Calls(1) = 3
    /\ Calls(2) = 1
\* C4: a candidate whose first call raises Unauthorized is not retried: the call is
\* followed by no backoff sleep, and the next call, if any, goes to the next
\* candidate.
C4_FatalShortCircuit ==
    [][(/\ adapter = "litellm"
        /\ pc = "try"
        /\ attempt = 0
        /\ hist'[model_idx].last = "Unauthorized")
       => /\ pc' # "sleep"
          /\ pc' = "try" => model_idx' = model_idx + 1]_vars

\* C5: a candidate that fails retryably j times (j <= max_retries) and then
\* succeeds makes _generate return the result of its call number j + 1, after j
\* sleeps, and no later candidate is called.
C5_SuccessAfterRetries ==
    InLiteLLM =>
        \A i \in 1..NumCandidates :
            (hist[i].last = "ok" /\ hist[i].all_retryable)
            => /\ pc = "done"
               /\ result # None
               /\ result.idx = i
               /\ result.att + 1 = Calls(i)
               /\ Calls(i) <= max_retries + 1
               /\ Sleeps(i) = Calls(i) - 1
               /\ \A k \in (i + 1)..NumCandidates : Calls(k) = 0

C5_Witness ==
    /\ InLiteLLM
    /\ NumCandidates = 2
    /\ max_retries = 2
    /\ hist[1].last = "ok"
    /\ hist[1].all_retryable
    /\ Calls(1) = 3
    /\ result = Str(1, 2, "text")
    /\ Calls(2) = 0

\* every candidate has failed its last attempt and _generate has returned
Exhausted == pc = "done" /\ \A i \in 1..NumCandidates : hist[i].last \notin {"", "ok"}

\* C6: whatever the provider calls raise, no exception leaves _generate, and None
\* is returned only when every candidate has made max_retries + 1 failed calls.
C6_NeverRaises ==
    InLiteLLM =>
        /\ raised = ""
        /\ (pc = "done" /\ result = None) =>
               \A i \in 1..NumCandidates :
                   Calls(i) = max_retries + 1 /\ hist[i].last \notin {"", "ok"}

C6_Witness ==
    /\ InLiteLLM
    /\ NumCandidates = 2
    /\ max_retries = 1
    /\ pc = "done"
    /\ result = None
    /\ hist[1].last = "Unauthorized"
    /\ hist[2].last = "Timeout"

\* the (candidate, last_error) pairs of the running invocation, in chain order
AttemptHistory == [i \in 1..NumCandidates |-> <<Candidates[i], hist[i].last>>]

C8_DefaultNoRetry ==
    (InLiteLLM /\ kwargs.max_retries = NoArg) =>
        /\ max_retries = 0
        /\ \A i \in 1..NumCandidates : Calls(i) <= 1 /\ Sleeps(i) = 0

\* C8 amended: without a max_retries argument LiteLLM uses max_retries = 3: a
\* candidate receives at most 4 calls, and one that fails them all has received
\* exactly 4 calls and 3 backoff sleeps.
C8_DefaultThreeRetries ==
    (InLiteLLM /\ kwargs.max_retries = NoArg) =>
        /\ max_retries = 3
        /\ \A i \in 1..NumCandidates :
              /\ Calls(i) <= 4
              /\ Left(i) => (Calls(i) = 4 /\ Sleeps(i) = 3)

C8_Witness ==
    /\ InLiteLLM
    /\ kwargs.max_retries = NoArg
    /\ NumCandidates = 2
    /\ model_idx = 2
    /\ Calls(1) = 4
    /\ Sleeps(1) = 3

\* C9: in every adapter, attempt number n >= 1 of a candidate is immediately
\* preceded by a sleep of exactly base_delay * 2^(n-1), and no other sleep occurs.
C9_BackoffDelay ==
    /\ \A k \in CallIndexes :
          log[k].att >= 1 =>
              /\ k > 1
              /\ log[k - 1].ev = "sleep"
              /\ log[k - 1].idx = log[k].idx
              /\ log[k - 1].delay = base_delay * (2 ^ (log[k].att - 1))
    /\ \A k \in 1..Len(log) :
          log[k].ev = "sleep" =>
              /\ k > 1 /\ log[k - 1] = CallEvent(log[k].idx, log[k].att)
              /\ k < Len(log) => log[k + 1] = CallEvent(log[k].idx, log[k].att + 1)

C9_Witness ==
    /\ adapter = "gemini"
    /\ kwargs.base_delay = NoArg
    /\ Len(log) = 5
    /\ log[2].delay = 10
    /\ log[4].delay = 20
    /\ log[5] = CallEvent(1, 2)

\* C10: with cost tracking enabled, get_total_cost() is the sum of the costs the
\* provider calls have reported since construction or the last reset_cost().
C10_CostAccumulates ==
    (adapter = "litellm" /\ config.track_cost) => GetTotalCost = cost_sum

C10_Witness ==
    /\ adapter = "litellm"
    /\ config.track_cost
    /\ pc = "done"
    /\ result # None
    /\ Len(log) = 1
    /\ GetTotalCost = 3

\* C11: when the concurrent _try_model calls of one instance have all finished,
\* total_cost is the previous total plus the sum of the costs they recorded (no
\* update is lost), under every interleaving.
C11_NoLostUpdate ==
    (\A t \in Threads : threads[t].pc = "done") => total_cost = cost_sum

\* C12: get_total_cost() returns the running total of the instance: 0 for a new
\* instance, 0 right after reset_cost(), and at any time what the provider calls
\* have added since.
C12_GetTotalCost ==
    adapter = "litellm" =>
        /\ GetTotalCost = cost_sum
        /\ last_op = "init" => GetTotalCost = 0
        /\ last_op = "reset_cost" => GetTotalCost = 0

C12_Witness ==
    /\ adapter = "litellm"
    /\ config.track_cost
    /\ last_op = "reset_cost"
    /\ pc = "done"
    /\ result = Str(1, 0, "text")
    /\ GetTotalCost = 0

\* the completion() outcomes whose cost cannot be computed: completion_cost
\* returns None or raises
NoCostOutcomes ==
    {o \in CompletionOutcomes : o.exc = "" /\ o.report.kind \in {"none", "raise"}}

\* the same reply with a cost the cost function computes
Priced(o) == [o EXCEPT !.report = [kind |-> "value", v |-> 1]]

\* C13: a provider call whose cost cannot be computed adds 0 to total_cost and does
\* not fail: no exception leaves _generate, and the call is treated exactly as the
\* same reply with a computed cost (same result, same next step of the loops, same
\* record of the attempt).
C13_MissingCostIsFree ==
    [][\A o \in NoCostOutcomes :
          (/\ adapter = "litellm"
           /\ pc = "try"
           /\ config.track_cost
           /\ TryModelCall(o))
          => LET r == TryModel(Priced(o), model_idx, attempt, response_format, tools, TRUE)
                 nxt == AfterTry(r.result, model_idx, attempt, max_retries,
                                 Len(ModelsToTry(config)))
             IN /\ total_cost' = total_cost
                /\ raised' = ""
                /\ pc' = nxt.pc
                /\ model_idx' = nxt.idx
                /\ attempt' = nxt.att
                /\ pc' = "done" => result' = r.result
                /\ hist'[model_idx].last = OutcomeKind(Priced(o), r.result)]_vars

C13_Witness ==
    /\ adapter = "litellm"
    /\ config.track_cost
    /\ last_op = "generate"
    /\ pc = "done"
    /\ Len(log) = 1
    /\ hist[1].last = "ok"
    /\ result = Str(1, 0, "text")
    /\ total_cost = 0

\* the completion() outcomes whose reply text is not JSON matching the schema
UnparsableOutcomes == {o \in CompletionOutcomes : o.exc = "" /\ o.content = "text"}

\* a _try_model call with a response schema and no tools is about to be made
SchemaCall == adapter = "litellm" /\ pc = "try" /\ response_format /\ ~tools

\* C14: when a response schema is requested and the reply text is not valid JSON
\* matching it, no exception leaves _try_model or _generate, and the parsed result
\* of the call is None.
C14_ParseFailureIsNone ==
    [][\A o \in UnparsableOutcomes :
          (SchemaCall /\ TryModelCall(o))
          => LET r == TryModel(o, model_idx, attempt, response_format, tools,
                               config.track_cost)
             IN /\ r.exc = ""
                /\ raised' = ""
                /\ r.result = None
                /\ result' = None]_vars

C14_Witness ==
    /\ adapter = "litellm"
    /\ response_format
    /\ ~tools
    /\ max_retries = 0
    /\ pc = "done"
    /\ hist[1].last = "parse_fail"
    /\ Len(log) = 1
    /\ result = None
    /\ raised = ""

C16_MessagesUnchanged ==
    InLiteLLM => messages = before.messages

\* C17: the Claude gateway and Gemini tool translators leave the caller's tool
\* definitions as they were when generate was called: same keys, same values.
C17_ToolDefinitionsUnchanged ==
    (adapter \in {"claude_gateway", "gemini"} /\ pc # "idle" /\ tools)
    => openai_tools = before.tools

\* C18: in the vLLM adapter a request that times out is retried: when _generate
\* returns after nothing but timeouts it has made max_retries + 1 requests with
\* max_retries backoff sleeps between them.
C18_VllmTimeoutRetried ==
    (adapter = "vllm" /\ pc = "done" /\ AlwaysFailedRetryably(1))
    => /\ result = None
       /\ Calls(1) = max_retries + 1
       /\ Sleeps(1) = max_retries

\* C19: in the Claude gateway adapter an Unauthorized reply (HTTP 401) ends
\* _generate: the failure value is returned, no backoff sleep and no further
\* request follows, so a first reply of 401 means exactly one request.
C19_UnauthorizedIsFatal ==
    (adapter = "claude_gateway" /\ pc # "idle" /\ hist[1].last = "Unauthorized")
    => /\ pc = "done"
       /\ result = None
       /\ log[Len(log)].ev = "call"

\* the tool_use blocks among content blocks
ToolUses(bs) == SelectSeq(bs, IsToolUse)

\* arguments of a tool call in OpenAI form that denote a string-keyed mapping
WellFormedArguments(a) ==
    \/ a.py = "dict"
    \/ a.py = "str" /\ JsonLoads(a.items).ok /\ JsonLoads(a.items).value.py = "dict"

\* the mapping that well-formed arguments denote
Mapping(a) == IF a.py = "str" THEN JsonLoads(a.items).value ELSE a

\* C20: a tool call with well-formed arguments keeps its id, its name and its
\* arguments over a round trip through the Claude gateway translation, from a
\* tool_use block to the OpenAI form and back, and from the OpenAI form to a
\* tool_use block and back; no tool call is added or dropped.
C20_ToolCallRoundTrip ==
    (round_trip.returned /\ round_trip.side = round_trip.origin) =>
        IF round_trip.origin = "wire"
        THEN LET was == ToolUses(round_trip.start)
                 now == ToolUses(blocks)
             IN /\ Len(now) = Len(was)
                /\ \A i \in DOMAIN was :
                      was[i].input.py = "dict" =>
                          /\ now[i].id = was[i].id
                          /\ now[i].name = was[i].name
                          /\ PyEq(now[i].input, was[i].input)
        ELSE LET was == round_trip.start.tool_calls
                 now == message.tool_calls
             IN /\ Len(now) = Len(was)
                /\ \A i \in DOMAIN was :
                      WellFormedArguments(was[i].function.arguments) =>
                          /\ now[i].id = was[i].id
                          /\ now[i].function.name = was[i].function.name
                          /\ PyEq(Mapping(now[i].function.arguments),
                                  Mapping(was[i].function.arguments))

C20_Witness ==
    /\ round_trip.origin = "wire"
    /\ round_trip.side = "wire"
    /\ round_trip.returned
    /\ Len(ToolUses(blocks)) = 2
    /\ blocks[1].input = Dict(<<[key |-> "b", value |-> Tok("str", "x")],
                                [key |-> "a", value |-> Tok("str", "x")]>>)
    /\ blocks[2].input = Dict(<<[key |-> "a", value |-> Tok("num", "1")],
                                [key |-> "b", value |-> Tok("str", "x")]>>)
    /\ message.tool_calls[2].function.arguments =
           PyStr(<<Punct("{"), Tok("str", "a"), Punct(":"), Tok("num", "1"), Punct(","),
                   Tok("str", "b"), Punct(":"), Tok("str", "x"), Punct("}")>>)

\* C27: with a response schema, the message list of every completion call (first
\* attempt, retries, fallback candidates) has the schema instruction exactly once,
\* in its leading system message, and is one message longer than the caller's
\* list only when that list had no leading system message.
C27_SchemaInstructionOnce ==
    [][\A o \in CompletionOutcomes :
          (adapter = "litellm" /\ pc = "try" /\ response_format /\ TryModelCall(o))
          => /\ messages'[1].role = "system"
             /\ messages'[1].instr = 1
             /\ \A i \in 2..Len(messages') : messages'[i].instr = 0
             /\ Len(messages') =
                    Len(before.messages)
                    + (IF before.messages[1].role = "system" THEN 0 ELSE 1)]_vars

\* a completion() call that returns but gives _try_model nothing to return: null
\* message content, or with a response schema a reply that does not parse
NoResult(o) ==
    /\ o.exc = ""
    /\ ~tools
    /\ o.content = "null" \/ (response_format /\ o.content # "json")

\* a completion() call that raises
Failure == [exc |-> "Timeout", content |-> "null", report |-> [kind |-> "none", v |-> 0]]

\* C28: in LiteLLM a completion call that returns without a usable result is
\* handled as a failed attempt: the candidate is retried after a backoff sleep
\* while attempts are left, then the chain moves to the next candidate or ends
\* with None, exactly as after a call that raised; the cost of the call is added
\* to total_cost all the same.
C28_NoResultIsFailedAttempt ==
    [][\A o \in CompletionOutcomes :
          (adapter = "litellm" /\ pc = "try" /\ NoResult(o) /\ TryModelCall(o))
          => LET f == TryModel(Failure, model_idx, attempt, response_format, tools,
                               config.track_cost)
                 nxt == AfterTry(f.result, model_idx, attempt, max_retries, NumCandidates)
             IN /\ pc' = nxt.pc /\ model_idx' = nxt.idx /\ attempt' = nxt.att
                /\ attempt < max_retries =>
                       pc' = "sleep" /\ model_idx' = model_idx /\ attempt' = attempt
                /\ (attempt >= max_retries /\ model_idx < NumCandidates) =>
                       pc' = "try" /\ model_idx' = model_idx + 1 /\ attempt' = 0
                /\ (attempt >= max_retries /\ model_idx = NumCandidates) =>
                       pc' = "done" /\ result' = None
                /\ raised' = ""
                /\ total_cost' = total_cost + (IF config.track_cost
                                               THEN CalculateCost(o.report) ELSE 0)]_vars

C28_Witness ==
    /\ adapter = "litellm"
    /\ config.track_cost
    /\ ~response_format
    /\ ~tools
    /\ NumCandidates = 2
    /\ max_retries = 1
    /\ model_idx = 2
    /\ pc = "try"
    /\ hist[1].last = "null_content"
    /\ Calls(1) = 2
    /\ Sleeps(1) = 1
    /\ last_op = "generate"
    /\ total_cost = 3

\* C29: LiteLLMModel._generate does not sleep after the last attempt of a
\* candidate: every sleep follows a failed attempt that is not the last and is
\* followed by the next attempt of the same candidate; a candidate that failed
\* all max_retries + 1 attempts has max_retries sleeps; the first call of the next
\* candidate follows its predecessor's last call directly, with attempt 0; and the
\* first retry of every candidate waits base_delay.
C29_NoSleepAfterLastAttempt ==
    InLiteLLM =>
        /\ \A k \in 1..Len(log) :
              log[k].ev = "sleep" =>
                  /\ log[k].att < max_retries
                  /\ k > 1
                  /\ log[k - 1] = CallEvent(log[k].idx, log[k].att)
                  /\ k < Len(log) => log[k + 1] = CallEvent(log[k].idx, log[k].att + 1)
                  /\ log[k].att = 0 => log[k].delay = base_delay
        /\ \A k \in CallIndexes :
              (k = 1 \/ log[k - 1].idx # log[k].idx) =>
                  /\ log[k].att = 0
                  /\ k > 1 => log[k - 1] = CallEvent(log[k].idx - 1, max_retries)
        /\ \A i \in 1..NumCandidates :
              (Left(i) /\ Calls(i) = max_retries + 1) => Sleeps(i) = max_retries

C29_Witness ==
    /\ adapter = "litellm"
    /\ max_retries = 2
    /\ base_delay = 3
    /\ model_idx = 2
    /\ attempt = 1
    /\ pc = "try"
    /\ Calls(1) = 3
    /\ Sleeps(1) = 2
    /\ Len(log) = 7
    /\ log[5] = CallEvent(1, 2)
    /\ log[6] = CallEvent(2, 0)
    /\ log[7] = SleepEvent(2, 0, 3)

\* a step in which a request is sent to a provider
ProviderCall == Len(log') = Len(log) + 1 /\ log'[Len(log')].ev = "call"

\* the api_key of a request ("" when the request carries none)
RequestKey(req) == Get(req, "api_key", "")

C23_KeyFixedPerInvocation ==
    [][ProviderCall => RequestKey(request') = before.api_key]_vars

\* C30: in a LiteLLM invocation with tools every completion call, retries and
\* fallback candidates included, is sent with the caller's tools, the caller's
\* tool_choice (when one was passed) and the caller's timeout (the configured
\* timeout when none was passed), the same as the call before it.
C30_SameCallOptions ==
    [][(adapter = "litellm" /\ tools /\ ProviderCall)
       => /\ request_tools' = before.tools
          /\ "tool_choice" \in DOMAIN request' <=> "tool_choice" \in DOMAIN options
          /\ "tool_choice" \in DOMAIN options => request'.tool_choice = options.tool_choice
          /\ request'.timeout = Get(options, "timeout", LiteLLMConfigTimeout)
          /\ log # <<>> =>
                 /\ request_tools' = request_tools
                 /\ Get(request', "tool_choice", "") = Get(request, "tool_choice", "")
                 /\ request'.timeout = request.timeout]_vars

C30_Witness ==
    /\ adapter = "litellm"
    /\ tools
    /\ options = [tool_choice |-> "auto", timeout |-> 5]
    /\ max_retries = 1
    /\ model_idx = 2
    /\ attempt = 1
    /\ Calls(1) = 2
    /\ Calls(2) = 2
    /\ pc = "done"
    /\ request_tools = <<ToolG>>
    /\ request.tool_choice = "auto"
    /\ request.timeout = 5

RECURSIVE ToolItems(_)
\* the tool calls and the tool results of a conversation, in conversation order
ToolItems(msgs) ==
    IF msgs = <<>> THEN <<>>
    ELSE LET m == Head(msgs)
             items ==
                 IF m.role = "assistant" /\ HasToolCalls(m)
                 THEN [i \in DOMAIN m.tool_calls |->
                          [kind |-> "call", id |-> m.tool_calls[i].id,
                           name |-> m.tool_calls[i].function.name,
                           text |-> LET toks == m.tool_calls[i].function.arguments.items
                                    IN [n \in DOMAIN toks |-> toks[n].v]]]
                 ELSE IF m.role = "tool"
                      THEN <<[kind |-> "result", id |-> Get(m, "tool_call_id", ""),
                              name |-> "", text |-> m.content]>>
                      ELSE <<>>
         IN items \o ToolItems(Tail(msgs))

\* the words of a text
WordsOf(text) == {text[i] : i \in DOMAIN text}

\* C21: a request of the Gemini adapter carries every tool call of the
\* conversation's assistant messages (id, name, arguments) and every tool result
\* (the id of its call, its content).
C21_GeminiCarriesToolMessages ==
    [][(adapter = "gemini" /\ ProviderCall) =>
          LET words == WordsOf(request'.system_instruction) \cup WordsOf(request'.contents)
              items == ToolItems(messages)
          IN \A k \in DOMAIN items :
                 /\ items[k].id \in words
                 /\ items[k].kind = "call" => items[k].name \in words
                 /\ \A i \in DOMAIN items[k].text : items[k].text[i] \in words]_vars

\* the ids of the tool calls of the assistant messages before position i
CalledBefore(msgs, i) ==
    UNION {{msgs[j].tool_calls[k].id : k \in DOMAIN msgs[j].tool_calls} :
              j \in {n \in 1..(i - 1) : msgs[n].role = "assistant" /\ HasToolCalls(msgs[n])}}

\* a tool message without tool_call_id, or whose tool_call_id is the id of no tool
\* call of an assistant message before it
Malformed(msgs) ==
    \E i \in DOMAIN msgs :
        /\ msgs[i].role = "tool"
        /\ \/ "tool_call_id" \notin DOMAIN msgs[i]
           \/ msgs[i].tool_call_id \notin CalledBefore(msgs, i)

\* C25: the gateway adapter rejects a conversation with such a tool message with
\* a MalformedInput error, and sends no request.
C25_MalformedConversationRejected ==
    [][(adapter = "claude_gateway" /\ pc = "idle" /\ pc' = "done" /\ Malformed(messages))
       => (log' = <<>> /\ raised' = "MalformedInput")]_vars

Replies == {o \in CompletionOutcomes : o.exc = ""}

\* C31: with tools, a completion call of LiteLLM that returns without raising
\* ends the invocation: the response object of that call is the result, whatever
\* its content (none, text, JSON) and whether or not a response schema was passed
\* too; no sleep, no further candidate and no further call follow.
C31_ToolReplyIsSuccess ==
    [][\A o \in Replies :
          (adapter = "litellm" /\ pc = "try" /\ tools /\ TryModelCall(o))
          => /\ pc' = "done"
             /\ result' = Response(model_idx, attempt, o.content)
             /\ raised' = ""
             /\ model_idx' = model_idx
             /\ attempt' = attempt
             /\ log' = Append(log, CallEvent(model_idx, attempt))]_vars

\* the first reply of an invocation with tools and a response schema has no content
\* and is returned although a retry and a fallback candidate were left
C31_Witness ==
    /\ adapter = "litellm"
    /\ tools
    /\ response_format
    /\ max_retries = 1
    /\ NumCandidates = 2
    /\ pc = "done"
    /\ Len(log) = 1
    /\ result = Response(1, 0, "null")

\* C32: after a failed attempt the Gemini adapter sleeps and retries exactly when
\* the attempt index is below max_retries and the lower-cased message of the
\* exception contains one of the keywords; otherwise it returns None with that
\* attempt as its last request and without a sleep.
C32_GeminiRetryRule ==
    [][\A o \in GeminiOutcomes :
          (o.exc # "" /\ GeminiAttemptWith(o))
          => /\ log' = Append(log, CallEvent(1, attempt))
             /\ IF /\ attempt < max_retries
                   /\ \E kw \in GeminiKeywords : ContainsWords(Lower(o.msg), kw)
                THEN pc' = "sleep"
                ELSE /\ pc' = "done"
                     /\ result' = None
                     /\ raised' = ""]_vars

\* a timeout was retried, then an exception without keyword ended the invocation
\* although a retry was left
C32_Witness ==
    /\ adapter = "gemini"
    /\ max_retries = 2
    /\ pc = "done"
    /\ result = None
    /\ Len(log) = 3
    /\ log[1] = CallEvent(1, 0)
    /\ log[2].ev = "sleep"
    /\ log[3] = CallEvent(1, 1)
    /\ hist[1].last = "Unauthorized"
    /\ ~hist[1].all_retryable

\* C33: called with a response schema, the Claude gateway adapter returns None
\* without a request and without a sleep, whatever max_retries is.
C33_ClaudeSchemaReturnsNone ==
    [][(adapter = "claude_gateway" /\ response_format /\ pc = "try" /\ ClaudeAttempt)
       => /\ pc' = "done"
          /\ result' = None
          /\ raised' = ""
          /\ log = <<>>
          /\ log' = <<>>
          /\ request' = EmptyDict]_vars

C33_Witness ==
    /\ adapter = "claude_gateway"
    /\ response_format
    /\ max_retries = 2
    /\ last_op = "generate"
    /\ pc = "done"
    /\ result = None
    /\ log = <<>>
    /\ request = EmptyDict

\* the entry of the gateway's message list that stands for message m
StandsFor(entry, m) ==
    CASE m.role = "user" -> entry.role = "user" /\ entry.content = m.content
      [] m.role = "tool" ->
            /\ entry.role = "user"
            /\ Len(entry.content) = 1
            /\ entry.content[1].type = "tool_result"
            /\ entry.content[1].tool_use_id = m.tool_call_id
            /\ entry.content[1].content = m.content
      [] m.role = "assistant" /\ ~HasToolCalls(m) ->
            entry.role = "assistant" /\ entry.content = m.content
      [] m.role = "assistant" /\ HasToolCalls(m) ->
            /\ entry.role = "assistant"
            /\ LET uses == SelectSeq(entry.content, IsToolUse)
               IN /\ Len(uses) = Len(m.tool_calls)
                  /\ \A k \in DOMAIN uses : uses[k].id = m.tool_calls[k].id
                  /\ Len(entry.content) = Len(uses) + (IF m.content # <<>> THEN 1 ELSE 0)

\* C34: in a request of the gateway adapter the message list has one entry for
\* each user, assistant and tool message of the conversation, in conversation
\* order, and the system text is the contents of the system messages joined in
\* conversation order.
C34_ConversationOrderKept ==
    [][(adapter = "claude_gateway" /\ ProviderCall) =>
          LET others == SelectSeq(messages, IsClaudeMessage)
              systems == SelectSeq(messages, IsSystem)
          IN /\ Len(request'.prompts) = Len(others)
             /\ \A i \in DOMAIN others : StandsFor(request'.prompts[i], others[i])
             /\ request'.system =
                    IF Len(systems) = 0 THEN <<>>
                    ELSE IF Len(systems) = 1 THEN systems[1].content
                    ELSE systems[1].content \o <<"\n">> \o systems[2].content]_vars

\* a request for a conversation in which a tool result lies between two assistant
\* messages
C34_Witness ==
    /\ adapter = "claude_gateway"
    /\ messages = <<SystemMessage, UserMessage,
                    AssistantCalls(<<"Checking">>, <<ToolCall("call_1", "f")>>),
                    ToolMessage("call_1"), AssistantText>>
    /\ pc = "done"
    /\ Len(log) = 1
    /\ Len(request.prompts) = 4
    /\ request.prompts[4] = HandleAssistantMessage(AssistantText)

RECURSIVE IsGeminiSchemaOf(_, _)
\* g has the type of sc (object when sc has none), the properties, required,
\* description and items that sc has, and no other key; its properties and its
\* items are related to those of sc in the same way
IsGeminiSchemaOf(g, sc) ==
    /\ DOMAIN g = {"type"} \cup (DOMAIN sc \cap {"properties", "required", "description",
                                                 "items"})
    /\ g.type = IF "type" \in DOMAIN sc THEN sc.type ELSE "object"
    /\ "required" \in DOMAIN sc => g.required = sc.required
    /\ "description" \in DOMAIN sc => g.description = sc.description
    /\ "properties" \in DOMAIN sc =>
           /\ DOMAIN g.properties = DOMAIN sc.properties
           /\ \A p \in DOMAIN sc.properties :
                  IsGeminiSchemaOf(g.properties[p], sc.properties[p])
    /\ "items" \in DOMAIN sc => IsGeminiSchemaOf(g.items, sc.items)

\* C35: the parameters of every function declaration in a Gemini request are the
\* translation of the tool's parameter schema: at every nesting level only type
\* (object when missing), properties, required, description and items are kept,
\* properties and items are translated by the same rule, every other key is
\* dropped, and the translation always yields a schema.
C35_GeminiSchemaTranslation ==
    [][(adapter = "gemini" /\ pc = "idle" /\ pc' = "done") =>
          /\ Len(request_tools') = 1
          /\ LET decls == request_tools'[1].function_declarations
             IN /\ Len(decls) = Len(openai_tools)
                /\ \A i \in DOMAIN decls :
                       IsGeminiSchemaOf(decls[i].parameters,
                                        openai_tools[i].function.parameters)]_vars

\* a schema with unknown keys on three levels was translated
C35_Witness ==
    /\ adapter = "gemini"
    /\ pc = "done"
    /\ openai_tools[1].function.parameters =
           [type |-> "object", title |-> "Args", additionalProperties |-> "false",
            required |-> <<"x">>,
            properties |->
                [x |-> [type |-> "string", description |-> "dx", title |-> "X"],
                 n |-> [type |-> "array",
                        items |-> [type |-> "number", format |-> "int32"]]]]
    /\ request_tools[1].function_declarations[1].parameters =
           [type |-> "object", required |-> <<"x">>,
            properties |-> [x |-> [type |-> "string", description |-> "dx"],
                            n |-> [type |-> "array", items |-> [type |-> "number"]]]]

\* C36: an invocation of LiteLLMModel._generate with N candidates and max_retries
\* R returns, whatever the provider calls do, and makes at most N * (R + 1)
\* completion calls and at most N * R backoff sleeps.
C36_GenerateTerminates ==
    /\ [](InLiteLLM =>
             /\ Cardinality(CallIndexes) <= NumCandidates * (max_retries + 1)
             /\ Cardinality(DOMAIN log \ CallIndexes) <= NumCandidates * max_retries)
    /\ ((adapter = "litellm" /\ pc \in {"try", "sleep"}) ~> pc = "done")

\* every call of two candidates failed: the invocation returned after
\* 2 * (2 + 1) calls and 2 * 2 sleeps
C36_Witness ==
    /\ adapter = "litellm"
    /\ NumCandidates = 2
    /\ max_retries = 2
    /\ pc = "done"
    /\ result = None
    /\ Cardinality(CallIndexes) = 6
    /\ Cardinality(DOMAIN log \ CallIndexes) = 4

\* C37 (as the claim states it: the code does otherwise): _run_task returns
\* None, without initializing or indexing any agent, whenever the collection
\* name is unknown or agent_index is at or beyond the size of the collection.
C37_InvalidAgentReturnsNone ==
    (task.pc # "idle" /\ (~task.known \/ task.index >= task.size))
        => /\ task.pc = "done"
           /\ task.returned = "None"
           /\ task.raised = ""
           /\ task.calls = <<>>

\* what the run calls once the result string exists; a failure of one of
\* these propagates out of _run_task
ClosingCalls == {"task.evaluate", "task.reset", "task.cleanup", "agent.cleanup"}

IsClosingCall(what) == what \in ClosingCalls

\* C38 (as the claim states it: the code does otherwise): once the task object
\* exists, an exception of change_servers, reset or execute becomes the result
\* string, and the evaluation, task.reset, task.cleanup and agent.cleanup still
\* run, in that order, before the result dict is returned (unless one of them
\* raises itself).
C38_FailureStillEvaluatedAndCleaned ==
    (task.pc = "done" /\ task.result = "error" /\ task.raised \notin ClosingCalls)
        => /\ task.returned = "dict"
           /\ task.raised = ""
           /\ SelectSeq(task.calls, IsClosingCall)
                 \in {<<"task.evaluate", "task.reset", "task.cleanup", "agent.cleanup">>,
                      <<"task.evaluate", "task.reset", "task.cleanup", "agent.cleanup",
                        "agent.cleanup">>}
====
